---- MODULE Spec2Model ----
(***************************************************************************)
(* A model of the action protocol, the tree store and the auto-fix engine  *)
(* of src/App.tsx (React 18, createRoot: state updates made after an await *)
(* are batched into one render).                                           *)
(*                                                                         *)
(* JavaScript values: strings stay strings; null and undefined are the     *)
(* sentinels NULL and UNDEF; a nullable object (a tree, a batch, a found   *)
(* node) is None (<<>>) or Some(v) (<<v>>), because [] is truthy in        *)
(* JavaScript and must differ from null.                                   *)
(***************************************************************************)
EXTENDS Integers, Sequences, FiniteSets, TLC

NULL == "<null>"
UNDEF == "<undefined>"
None == <<>>
Some(v) == <<v>>
IsSome(o) == o # <<>>
The(o) == o[1]

\* JavaScript truthiness of a string-or-null-or-undefined value.
Truthy(s) == s # NULL /\ s # UNDEF /\ s # ""

(***************************************************************************)
(* FileNode (src/unnamed/part_000) and the initial tree (src/constants.ts) *)
(* The long file contents of INITIAL_FILES are abbreviated to short tokens.*)
(***************************************************************************)
FileNode(id, name, content) ==
  [id |-> id, name |-> name, type |-> "file", content |-> content]
FolderNode(id, name, children) ==
  [id |-> id, name |-> name, type |-> "folder", children |-> children]

INITIAL_FILES ==
  << FolderNode("1", "project",
       << FileNode("1-1", "index.html", "html0"),
          FileNode("1-2", "style.css", "css0"),
          FileNode("1-3", "script.js", "js0") >>),
     FileNode("2", "README.md", "readme0"),
     FileNode("3", ".gitignore", "ignore0"),
     FileNode("4", "LICENSE", "license0") >>

HasChildren(node) == "children" \in DOMAIN node
HasContent(node) == "content" \in DOMAIN node

(***************************************************************************)
(* Tree store, on values (App.tsx 22-121)                                  *)
(***************************************************************************)
RECURSIVE findFileById(_, _)
findFileById(nodes, id) ==
  IF nodes = <<>> THEN None
  ELSE LET node == Head(nodes) IN
       IF node.id = id THEN Some(node)
       ELSE LET found == IF node.type = "folder" /\ HasChildren(node)
                         THEN findFileById(node.children, id)
                         ELSE None
            IN IF IsSome(found) THEN found ELSE findFileById(Tail(nodes), id)

\* A copy of the tree in which the node findFileById(nodes, id) returns is
\* replaced by newNode (the in-place write to the node found in the clone).
RECURSIVE ReplaceFound(_, _, _)
ReplaceFound(nodes, id, newNode) ==
  IF nodes = <<>> THEN <<>>
  ELSE LET node == Head(nodes) IN
       IF node.id = id THEN <<newNode>> \o Tail(nodes)
       ELSE IF node.type = "folder" /\ HasChildren(node)
               /\ IsSome(findFileById(node.children, id))
            THEN <<[node EXCEPT !.children = ReplaceFound(@, id, newNode)]>>
                 \o Tail(nodes)
            ELSE <<node>> \o ReplaceFound(Tail(nodes), id, newNode)

\* file.content = content
SetContent(node, content) ==
  [k \in DOMAIN node \cup {"content"} |->
     IF k = "content" THEN content ELSE node[k]]

\* if (!parent.children) parent.children = []; parent.children.push(child)
PushChild(node, child) ==
  [k \in DOMAIN node \cup {"children"} |->
     IF k = "children"
     THEN (IF HasChildren(node) THEN Append(node.children, child) ELSE <<child>>)
     ELSE node[k]]

\* updateFileContentPure that writes the content to whatever node it finds.
updateFileContentPureAnyNode(targetFiles, id, content) ==
  LET file == findFileById(targetFiles, id)
  IN IF IsSome(file)
     THEN ReplaceFound(targetFiles, id, SetContent(The(file), content))
     ELSE targetFiles

updateFileContentPure(targetFiles, id, content) ==
  LET file == findFileById(targetFiles, id)
  IN IF IsSome(file) /\ The(file).type = "file"
     THEN ReplaceFound(targetFiles, id, SetContent(The(file), content))
     ELSE targetFiles

\* addFileOrFolderPure that adds at the root only.
addFileOrFolderPureRootOnly(targetFiles, parentId, node) ==
  IF parentId = NULL THEN Append(targetFiles, node) ELSE targetFiles

addFileOrFolderPure(targetFiles, parentId, node) ==
  LET parent == findFileById(targetFiles, parentId)
  IN IF parentId = NULL THEN Append(targetFiles, node)
     ELSE IF IsSome(parent) /\ The(parent).type = "folder"
          THEN ReplaceFound(targetFiles, parentId, PushChild(The(parent), node))
          ELSE targetFiles

\* deleteFileOrFolderPure that looks at the root level only.
deleteFileOrFolderPureTopLevel(targetFiles, id) ==
  SelectSeq(targetFiles, LAMBDA node : node.id # id)

RECURSIVE deleteFileOrFolderPure(_, _)
deleteFileOrFolderPure(targetFiles, id) ==
  IF targetFiles = <<>> THEN <<>>
  ELSE LET node == Head(targetFiles)
           rest == deleteFileOrFolderPure(Tail(targetFiles), id)
       IN IF node.id = id THEN rest
          ELSE IF node.type = "folder" /\ HasChildren(node)
               THEN <<[node EXCEPT !.children =
                         deleteFileOrFolderPure(node.children, id)]>> \o rest
               ELSE <<node>> \o rest

RECURSIVE getFlattenedFileTree(_, _)
getFlattenedFileTree(nodes, path) ==
  IF nodes = <<>> THEN <<>>
  ELSE LET node == Head(nodes)
           currentPath == path \o node.name
                          \o (IF node.type = "folder" THEN "/" ELSE "")
           flatNode == [id |-> node.id, name |-> node.name,
                        type |-> node.type, path |-> currentPath]
       IN <<flatNode>>
          \o (IF node.type = "folder" /\ HasChildren(node)
              THEN getFlattenedFileTree(node.children, currentPath)
              ELSE <<>>)
          \o getFlattenedFileTree(Tail(nodes), path)

RECURSIVE getCleanFileTree(_)
getCleanFileTree(nodes) ==
  IF nodes = <<>> THEN <<>>
  ELSE LET node == Head(nodes)
           item == IF node.type = "folder" /\ HasChildren(node)
                   THEN [id |-> node.id, name |-> node.name, type |-> node.type,
                         children |-> getCleanFileTree(node.children)]
                   ELSE [id |-> node.id, name |-> node.name, type |-> node.type]
       IN <<item>> \o getCleanFileTree(Tail(nodes))

\* A path is modelled by the pieces its text has between the "/" characters
\* (what split('/') returns of it): the text is the pieces joined with "/".
\* The pieces used here that end with "." are these, with the text before it.
DotEnded == {"."}
BeforeDot(piece) == ""

\* path.replace('./', '').split('/'): the first "./" of the text is a piece
\* that ends with "." and has a "/" after it; it is taken out with that "/",
\* so what is before the "." runs into the next piece.
RECURSIVE WithoutDotSlash(_)
WithoutDotSlash(pieces) ==
  IF Len(pieces) < 2 THEN pieces
  ELSE IF Head(pieces) \in DotEnded
  THEN <<BeforeDot(Head(pieces)) \o pieces[2]>> \o SubSeq(pieces, 3, Len(pieces))
  ELSE <<Head(pieces)>> \o WithoutDotSlash(Tail(pieces))

\* currentNodes.find(node => node.name === part): the first such node, or
\* undefined (None).
RECURSIVE FindByName(_, _)
FindByName(nodes, part) ==
  IF nodes = <<>> THEN None
  ELSE IF Head(nodes).name = part THEN Some(Head(nodes))
  ELSE FindByName(Tail(nodes), part)

\* currentNodes after `node` was found: the children of a folder (None when
\* it has no children array), and otherwise the nodes as they were.
NodesAfter(currentNodes, node) ==
  IF node.type = "folder"
  THEN (IF HasChildren(node) THEN Some(node.children) ELSE None)
  ELSE currentNodes

\* The loop of findFileByPath (App.tsx 110-119) from `parts` on.
RECURSIVE FindParts(_, _, _)
FindParts(currentNodes, foundNode, parts) ==
  IF parts = <<>> THEN foundNode
  ELSE IF ~IsSome(currentNodes) \/ Head(parts) = ""
  THEN FindParts(currentNodes, foundNode, Tail(parts))
  ELSE IF ~IsSome(FindByName(The(currentNodes), Head(parts))) THEN None
  ELSE FindParts(NodesAfter(currentNodes, The(FindByName(The(currentNodes), Head(parts)))),
                 FindByName(The(currentNodes), Head(parts)),
                 Tail(parts))

findFileByPath(nodes, path) == FindParts(Some(nodes), None, WithoutDotSlash(path))

(***************************************************************************)
(* Tree store, on the JavaScript heap (App.tsx 22-71)                      *)
(*                                                                         *)
(* The heap is a sequence of objects and a reference is an index into it;  *)
(* 0 is no reference.  An array object holds references to node objects; a *)
(* node object holds its strings and a reference to its children array.    *)
(* Every operation returns the heap it leaves and the reference it returns.*)
(***************************************************************************)
ArrayObj(items) == [kind |-> "array", items |-> items]
NodeObj(id, name, type, content, children) ==
  [kind |-> "node", id |-> id, name |-> name, type |-> type,
   content |-> content, children |-> children]
Ref(h, a) == [h |-> h, a |-> a]

\* new Object: the heap with one more object, and the reference to it.
Alloc(h, obj) == Ref(Append(h, obj), Len(h) + 1)

\* The value a reference denotes (what JSON.stringify prints of it).
RECURSIVE DerefItems(_, _)
NodeValue(n, kids) ==
  IF n.children # 0 /\ n.content # UNDEF
  THEN [id |-> n.id, name |-> n.name, type |-> n.type, content |-> n.content,
        children |-> kids]
  ELSE IF n.children # 0
  THEN [id |-> n.id, name |-> n.name, type |-> n.type, children |-> kids]
  ELSE IF n.content # UNDEF
  THEN [id |-> n.id, name |-> n.name, type |-> n.type, content |-> n.content]
  ELSE [id |-> n.id, name |-> n.name, type |-> n.type]
DerefNode(h, a) ==
  NodeValue(h[a], IF h[a].children # 0 THEN DerefItems(h, h[h[a].children].items)
                  ELSE <<>>)
DerefItems(h, items) ==
  IF items = <<>> THEN <<>>
  ELSE <<DerefNode(h, Head(items))>> \o DerefItems(h, Tail(items))
Deref(h, a) == DerefItems(h, h[a].items)

\* An array object of the references r.items.
NewArrayOf(r) == Alloc(r.h, ArrayObj(r.items))

\* Objects for a value: an object literal, or JSON.parse of its text.
RECURSIVE AllocItems(_, _, _)
AllocFile(h, node) ==
  Alloc(h, NodeObj(node.id, node.name, node.type,
                   IF HasContent(node) THEN node.content ELSE UNDEF, 0))
AllocFolder(kids, node) ==
  Alloc(Append(kids.h, ArrayObj(kids.items)),
        NodeObj(node.id, node.name, node.type,
                IF HasContent(node) THEN node.content ELSE UNDEF, Len(kids.h) + 1))
AllocNode(h, node) ==
  IF HasChildren(node) THEN AllocFolder(AllocItems(h, node.children, <<>>), node)
  ELSE AllocFile(h, node)
AllocNext(n, nodes, acc) == AllocItems(n.h, nodes, Append(acc, n.a))
AllocItems(h, nodes, acc) ==
  IF nodes = <<>> THEN [h |-> h, items |-> acc]
  ELSE AllocNext(AllocNode(h, Head(nodes)), Tail(nodes), acc)
AllocTree(h, nodes) == NewArrayOf(AllocItems(h, nodes, <<>>))

\* JSON.parse(JSON.stringify(x)) that returns x itself.
JsonCloneShared(h, a) == Ref(h, a)

\* JSON.parse(JSON.stringify(x)): new objects for the value x denotes.
JsonClone(h, a) ==
  IF h[a].kind = "array" THEN AllocTree(h, Deref(h, a))
  ELSE AllocNode(h, DerefNode(h, a))

\* findFileById (App.tsx 22-31) returning the node object itself.
RECURSIVE HeapFind(_, _, _)
HeapFind(h, items, id) ==
  IF items = <<>> THEN 0
  ELSE IF h[Head(items)].id = id THEN Head(items)
  ELSE IF h[Head(items)].type = "folder" /\ h[Head(items)].children # 0
          /\ HeapFind(h, h[h[Head(items)].children].items, id) # 0
  THEN HeapFind(h, h[h[Head(items)].children].items, id)
  ELSE HeapFind(h, Tail(items), id)

\* findFileById(newFiles, id), newFiles being a reference with its heap
FindIn(newFiles, id) == HeapFind(newFiles.h, newFiles.h[newFiles.a].items, id)

\* if (file && file.type === 'file') file.content = content; return newFiles
WriteContent(h, newFiles, file, content) ==
  IF file # 0 /\ h[file].type = "file"
  THEN Ref([h EXCEPT ![file].content = content], newFiles)
  ELSE Ref(h, newFiles)

\* updateFileContentPure (App.tsx 33-40) after its first line
UpdateIn(newFiles, id, content) ==
  WriteContent(newFiles.h, newFiles.a, FindIn(newFiles, id), content)

\* updateFileContentPure (App.tsx 33-40)
HeapUpdate(h, targetFiles, id, content) ==
  UpdateIn(JsonClone(h, targetFiles), id, content)

\* array.push(node)
Push(h, array, node) == [h EXCEPT ![array].items = Append(@, node)]

\* if (parent && parent.type === 'folder') { if (!parent.children)
\* parent.children = []; parent.children.push(node) }; return newFiles
PushUnder(h, newFiles, parent, node) ==
  IF parent # 0 /\ h[parent].type = "folder"
  THEN IF h[parent].children = 0
       THEN Ref(Push(Append([h EXCEPT ![parent].children = Len(h) + 1], ArrayObj(<<>>)),
                     Len(h) + 1, node),
                newFiles)
       ELSE Ref(Push(h, h[parent].children, node), newFiles)
  ELSE Ref(h, newFiles)

\* addFileOrFolderPure (App.tsx 42-56) after its first line
AddIn(newFiles, parentId, node) ==
  IF parentId = NULL THEN Ref(Push(newFiles.h, newFiles.a, node), newFiles.a)
  ELSE PushUnder(newFiles.h, newFiles.a, FindIn(newFiles, parentId), node)

\* addFileOrFolderPure (App.tsx 42-56); `node` refers to the caller's object.
HeapAdd(h, targetFiles, parentId, node) ==
  AddIn(JsonClone(h, targetFiles), parentId, node)

\* deleteFileOrFolderPure (App.tsx 58-71): the loop over targetFiles, with
\* the references pushed to newFiles so far.
RECURSIVE HeapDeleteItems(_, _, _, _)

\* newNode.children = <kids>; newFiles.push(newNode); and the rest of the loop
SetChildren(newNode, kids, rest, id, newFiles) ==
  HeapDeleteItems([kids.h EXCEPT ![newNode].children = kids.a], rest, id,
                  Append(newFiles, newNode))

\* const newFiles = [] ... return newFiles
HeapDelete(h, targetFiles, id) ==
  NewArrayOf(HeapDeleteItems(h, h[targetFiles].items, id, <<>>))

\* The loop body from line 65 on, newNode being the clone of line 64.
KeepNode(newNode, rest, id, newFiles) ==
  IF newNode.h[newNode.a].type = "folder" /\ newNode.h[newNode.a].children # 0
  THEN SetChildren(newNode.a,
                   HeapDelete(newNode.h, newNode.h[newNode.a].children, id),
                   rest, id, newFiles)
  ELSE HeapDeleteItems(newNode.h, rest, id, Append(newFiles, newNode.a))

HeapDeleteItems(h, items, id, newFiles) ==
  IF items = <<>> THEN [h |-> h, items |-> newFiles]
  ELSE IF h[Head(items)].id = id THEN HeapDeleteItems(h, Tail(items), id, newFiles)
  ELSE KeepNode(JsonClone(h, Head(items)), Tail(items), id, newFiles)

(***************************************************************************)
(* Model replies and actions                                               *)
(*                                                                         *)
(* An action is the JSON object the model sent: a record of its fields,    *)
(* UNDEF for a field that is absent.  NullElement is a batch element that  *)
(* is JSON null, on which reading `.type` throws a TypeError.              *)
(***************************************************************************)
Action(type, fileId, content, parentId, name, fileType, message) ==
  [type |-> type, fileId |-> fileId, content |-> content, parentId |-> parentId,
   name |-> name, fileType |-> fileType, message |-> message]

Edit(fileId, content) == Action("edit", fileId, content, UNDEF, UNDEF, UNDEF, UNDEF)
Create(parentId, name, fileType, content) ==
  Action("create", UNDEF, content, parentId, name, fileType, UNDEF)
Delete(fileId) == Action("delete", fileId, UNDEF, UNDEF, UNDEF, UNDEF, UNDEF)
Chat(message) == Action("chat", UNDEF, UNDEF, UNDEF, UNDEF, UNDEF, message)
NullElement == Action("<null element>", UNDEF, UNDEF, UNDEF, UNDEF, UNDEF, UNDEF)
\* A batch element that is a JSON string or number: every field read of it,
\* `.type` included, gives undefined.
StringElement == Action(UNDEF, UNDEF, UNDEF, UNDEF, UNDEF, UNDEF, UNDEF)
\* An action object of a type the loops have no branch for.
Rename(fileId, name) == Action("rename", fileId, UNDEF, UNDEF, name, UNDEF, UNDEF)

\* typeof v === 'string'
IsString(v) == v # NULL /\ v # UNDEF
\* `${v}` in a template literal
Str(v) == IF v = UNDEF THEN "undefined" ELSE IF v = NULL THEN "null" ELSE v

\* Array.prototype.join: null and undefined elements print as the empty string.
RECURSIVE Join(_, _)
Join(lines, sep) ==
  IF lines = <<>> THEN ""
  ELSE LET h == IF IsString(Head(lines)) THEN Head(lines) ELSE ""
       IN IF Len(lines) = 1 THEN h ELSE h \o sep \o Join(Tail(lines), sep)

\* `${Date.now()}-${Math.random().toString(36).substring(2, 9)}`: `now` is the
\* text of the clock's milliseconds and `random` the digits Math.random gave.
\* Nothing compares the id with the ids of the tree.
NewId(now, random) == now \o "-" \o random

Includes(seq, x) == \E i \in DOMAIN seq : seq[i] = x
Filter(seq, x) == SelectSeq(seq, LAMBDA y : y # x)

\* The accumulators of a fold over a batch: tempFiles, tempOpenFileIds,
\* tempActiveFileId, actionSummaries, didModifyFiles; `threw` once an
\* exception has left the loop; `ids`, the number of ids generated so far;
\* `gen`, what Date.now() and Math.random() return to the create actions still
\* to come, in order.
FoldState(files, open, active, summaries, ids, gen) ==
  [files |-> files, open |-> open, active |-> active, summaries |-> summaries,
   didModify |-> FALSE, threw |-> FALSE, ids |-> ids, gen |-> gen]

NewNode(newId, action) ==
  IF action.fileType = "file"
  THEN [id |-> newId, name |-> action.name, type |-> action.fileType,
        content |-> IF Truthy(action.content) THEN action.content ELSE ""]
  ELSE [id |-> newId, name |-> action.name, type |-> action.fileType,
        children |-> <<>>]

\* ['edit', 'create', 'delete'].includes(action.type)
ModifyingTypes == {"edit", "create", "delete"}

\* A delete that closes the tab and leaves the active file id as it is.
AfterDeleteNoPromotion(st, fileId) ==
  [st EXCEPT !.open = Filter(st.open, fileId)]

\* The tab bookkeeping of a delete, identical in both loops.
AfterDelete(st, fileId) ==
  LET open == IF Includes(st.open, fileId) THEN Filter(st.open, fileId) ELSE st.open
      active == IF st.active = fileId
                THEN (IF Len(open) > 0 THEN open[1] ELSE NULL)
                ELSE st.active
  IN [st EXCEPT !.open = open, !.active = active]

\* An iteration that fails hard on an edit of a file it does not find.
SendStepHardFail(st0, action) ==
  IF st0.threw THEN st0
  ELSE IF action.type = "edit" /\ ~IsSome(findFileById(st0.files, action.fileId))
  THEN [st0 EXCEPT !.threw = TRUE]
  ELSE [st0 EXCEPT !.summaries = Append(@, Str(action.message))]

\* One iteration of the loop of handleSendMessage (App.tsx 361-400).
SendStep(st0, action) ==
  IF st0.threw THEN st0
  ELSE IF action = NullElement THEN [st0 EXCEPT !.threw = TRUE]
  ELSE
    LET st == [st0 EXCEPT !.didModify = @ \/ action.type \in ModifyingTypes]
        found == findFileById(st.files, action.fileId)
    IN
    IF action.type = "edit" THEN
      IF IsSome(found) /\ IsString(action.content)
      THEN [st EXCEPT
              !.files = updateFileContentPure(st.files, action.fileId, action.content),
              !.summaries = Append(@, "Updated file: " \o Str(The(found).name)),
              !.active = action.fileId,
              !.open = IF Includes(@, action.fileId) THEN @ ELSE Append(@, action.fileId)]
      ELSE [st EXCEPT !.summaries = Append(@,
              "Skipped malformed 'edit' action for file ID " \o Str(action.fileId) \o ".")]
    ELSE IF action.type = "create" THEN
      LET newId == NewId(Head(st.gen).now, Head(st.gen).random)
          newNode == NewNode(newId, action)
          st1 == [st EXCEPT
                    !.ids = @ + 1, !.gen = Tail(@),
                    !.files = addFileOrFolderPure(st.files, action.parentId, newNode),
                    !.summaries = Append(@, "Created " \o Str(action.fileType)
                                            \o ": " \o Str(action.name))]
      IN IF newNode.type = "file"
         THEN [st1 EXCEPT !.active = newId,
                          !.open = IF Includes(@, newId) THEN @ ELSE Append(@, newId)]
         ELSE st1
    ELSE IF action.type = "delete" THEN
      IF IsSome(found)
      THEN AfterDelete(
             [st EXCEPT
                !.files = deleteFileOrFolderPure(st.files, action.fileId),
                !.summaries = Append(@, "Deleted " \o Str(The(found).type)
                                        \o ": " \o Str(The(found).name))],
             action.fileId)
      ELSE st
    ELSE IF action.type = "chat" THEN
      [st EXCEPT !.summaries = Append(@, action.message)]
    ELSE st

\* One iteration of the loop of handleAutoFix (App.tsx 245-273).
FixStep(st0, action) ==
  IF st0.threw THEN st0
  ELSE IF action = NullElement THEN [st0 EXCEPT !.threw = TRUE]
  ELSE
    LET st == [st0 EXCEPT !.didModify = @ \/ action.type \in ModifyingTypes]
        found == findFileById(st.files, action.fileId)
    IN
    IF action.type = "edit" THEN
      IF IsSome(found) /\ IsString(action.content)
      THEN [st EXCEPT
              !.files = updateFileContentPure(st.files, action.fileId, action.content),
              !.summaries = Append(@, "- Updated file: " \o Str(The(found).name))]
      ELSE [st EXCEPT !.summaries = Append(@,
              "- Skipped malformed 'edit' action for file ID " \o Str(action.fileId) \o ".")]
    ELSE IF action.type = "create" THEN
      LET newId == NewId(Head(st.gen).now, Head(st.gen).random)
          newNode == NewNode(newId, action)
      IN [st EXCEPT
            !.ids = @ + 1, !.gen = Tail(@),
            !.files = addFileOrFolderPure(st.files, action.parentId, newNode),
            !.summaries = Append(@, "- Created " \o Str(action.fileType)
                                    \o ": " \o Str(action.name))]
    ELSE IF action.type = "delete" THEN
      IF IsSome(found)
      THEN AfterDelete(
             [st EXCEPT
                !.files = deleteFileOrFolderPure(st.files, action.fileId),
                !.summaries = Append(@, "- Deleted " \o Str(The(found).type)
                                        \o ": " \o Str(The(found).name))],
             action.fileId)
      ELSE st
    ELSE IF action.type = "chat" THEN
      [st EXCEPT !.summaries = Append(@, "- " \o Str(action.message))]
    ELSE st

\* A loop that runs its last action only, against the tree it started from.
SendFoldLastOnly(st, actions) ==
  IF actions = <<>> THEN st ELSE SendStep(st, actions[Len(actions)])

RECURSIVE SendFold(_, _)
SendFold(st, actions) ==
  IF actions = <<>> THEN st ELSE SendFold(SendStep(st, Head(actions)), Tail(actions))

RECURSIVE FixFold(_, _)
FixFold(st, actions) ==
  IF actions = <<>> THEN st ELSE FixFold(FixStep(st, Head(actions)), Tail(actions))

(***************************************************************************)
(* parseAiResponse (App.tsx 161-187).  A reply text is described by what   *)
(* the three attempts find in it: a ```json fence (absent, holding invalid *)
(* JSON, or valid), a {...} span (likewise), and the whole text as JSON.   *)
(* `value` is the JSON value of the attempt that succeeds.                 *)
(***************************************************************************)
\* JSON values: null, an object whose `actions` is an array (Some) or is not
\* (None), and a bare array of actions.
JsonNull == [kind |-> "null", actions |-> None]
JsonObject(actions) == [kind |-> "object", actions |-> actions]
JsonArray(actions) == [kind |-> "array", actions |-> Some(actions)]

Reply(text, fence, loose, whole, value) ==
  [text |-> text, fence |-> fence, loose |-> loose, whole |-> whole, value |-> value]

Returned(value) == [threw |-> FALSE, value |-> value, message |-> ""]
Thrown(message) == [threw |-> TRUE, value |-> JsonNull, message |-> message]

parseAiResponse(responseText) ==
  IF responseText.fence = "ok" THEN Returned(responseText.value)
  ELSE IF responseText.loose = "ok" THEN Returned(responseText.value)
  ELSE IF responseText.loose = "bad"
       THEN Thrown("Could not find a valid JSON object in the response. Raw response: "
                   \o responseText.text)
  ELSE IF responseText.whole = "ok" THEN Returned(responseText.value)
  ELSE Thrown("No valid JSON object found in the AI response. Raw response: "
              \o responseText.text)

(***************************************************************************)
(* Inputs of the environment                                               *)
(***************************************************************************)
MaxCalls == 3      \* model calls issued in a run

\* What the user types: successive prompts differ, so that a prompt kept from
\* an earlier cycle is told apart from the current one.
Prompts == {"add a button", "make it blue"}
PromptAt(k) == IF k % 2 = 0 THEN "add a button" ELSE "make it blue"
ErrorMessages == {"Error in preview: boom at line 1, column 1"}
\* What window.prompt returns: null (cancelled), "" or the text typed.
DialogResults == {NULL, "", "typed"}
ManualContents == {"manual"}

\* What the id generator of a create action can be given: the clock's text,
\* which is the same for the creates of one loop (they fall in one
\* millisecond) and later for every later reply, and the digits of
\* Math.random.
Timestamp(k) == "170000000000" \o ToString(k)
RandomDigits == {"k3j9x2a", "p0q8w1z"}
Draws(now) == [now : {now}, random : RandomDigits]

\* The id the model writes in an edit that follows a create: one of the ids
\* the generator can give to the first reply.
GuessedId == NewId(Timestamp(0), "k3j9x2a")

Batches ==
  { <<>>,
    <<Chat("hi")>>,
    <<Edit("1-1", "x")>>,
    <<Delete("does-not-exist")>>,
    <<Chat("hi"), NullElement>>,
    <<Create(NULL, "a.js", "file", ""), Edit(GuessedId, "x")>>,
    <<Edit("does-not-exist", "y"), Chat("hi")>>,
    <<Edit("1-1", UNDEF), Chat("hi")>>,
    <<Create(NULL, UNDEF, UNDEF, UNDEF), Chat("hi")>>,
    <<Rename("1-1", "main.html"), Chat("hi")>>,
    <<Edit("1", "x")>>,
    <<Edit("1-1", "x")>>,
    <<Create("does-not-exist", "b.js", "file", "y")>>,
    <<Delete("1-1"), Delete("1")>>,
    <<Create("1", "a.js", "file", "y"), Create(NULL, "lib", "folder", UNDEF)>> }

ReplyOk(batch) == Reply("ok", "none", "ok", "ok", JsonObject(Some(batch)))
ReplyProse == Reply("Sure, here you go", "none", "none", "bad", JsonNull)
ReplyNoActions == Reply("{}", "none", "ok", "ok", JsonObject(None))
ReplyJsonNull == Reply("null", "none", "none", "ok", JsonNull)

Replies ==
  {ReplyOk(b) : b \in Batches}
    \cup {ReplyProse, ReplyNoActions, ReplyJsonNull}

\* The replies the engine is run with: an empty batch, a chat-only batch, a
\* batch that modifies the tree, and text that is not JSON.
EngineReplies ==
  {ReplyOk(<<>>), ReplyOk(<<Chat("hi")>>), ReplyOk(<<Edit("1-1", "x")>>), ReplyProse}

\* The create actions reached by the loop over a reply's batch, each of which
\* draws an id: none when the text does not parse, when `actions` is not an
\* array, or after a null element has thrown.
RECURSIVE CreatesBeforeThrow(_)
CreatesBeforeThrow(batch) ==
  IF batch = <<>> \/ Head(batch) = NullElement THEN 0
  ELSE (IF Head(batch).type = "create" THEN 1 ELSE 0) + CreatesBeforeThrow(Tail(batch))

IdsDrawn(reply) ==
  IF parseAiResponse(reply).threw \/ ~IsSome(parseAiResponse(reply).value.actions)
  THEN 0
  ELSE CreatesBeforeThrow(The(parseAiResponse(reply).value.actions))

\* Messages of the errors getAiResponse rejects with (aiService.ts 79-172).
RejectMessages == {"Gemini API key is not configured."}

\* The same with a backend error (aiService.ts 105-106).
BackendRejectMessages ==
  RejectMessages \cup {"Failed to get response from Gemini. 500 Internal Server Error"}

(***************************************************************************)
(* The state of App (App.tsx 125-140), the pending model calls, and        *)
(* history variables used to state the properties.                         *)
(***************************************************************************)
VARIABLES
  files, activeFileId, openFileIds, messages,   \* useLocalStorage state
  isLoading,
  lastUserPrompt, lastAiActions, lastFileState, \* the Correction Context
  calls,          \* the handler invocations suspended at `await getAiResponse`
  viewMode,       \* "editor" or "preview": which of CodeEditor and Preview is mounted
  onError,        \* the render whose handler is installed as the iframe's onerror
  ids,            \* how many node ids have been generated
  nCalls,         \* history: how many model calls were issued
  event,          \* history: what the last step was
  cyclePrompt,    \* history: the text of the latest user prompt
  promptsIssued,  \* history: how many user prompts were submitted
  autoFixCalls,   \* history: auto-fix model calls since the latest user prompt
  ctxCycle,       \* history: promptsIssued when the context was last armed
  staleDiscarded, \* history: the latest user prompt discarded an armed context
  heap,           \* the objects of the tree store runs
  held,           \* the trees produced so far: reference, and value when produced
  storeEvent      \* history: the latest tree store call

appVars == <<files, activeFileId, openFileIds, messages, isLoading,
             lastUserPrompt, lastAiActions, lastFileState, calls, ids>>
frameVars == <<viewMode, onError>>
histVars == <<nCalls, event, cyclePrompt, promptsIssued, autoFixCalls,
              ctxCycle, staleDiscarded>>
storeVars == <<heap, held, storeEvent>>
vars == <<appVars, frameVars, histVars, storeVars>>

Message(role, content, isError, isAutoFix) ==
  [role |-> role, content |-> content, isError |-> isError, isAutoFix |-> isAutoFix]

Event(name) ==
  [name |-> name, error |-> "", dropped |-> FALSE, applied |-> FALSE,
   didModify |-> FALSE, batch |-> <<>>, treeBefore |-> <<>>, base |-> <<>>,
   closureFiles |-> <<>>, parsed |-> JsonNull, wasArmed |-> FALSE,
   wasLoading |-> FALSE, pendingBefore |-> 0,
   baseOpen |-> <<>>, baseActive |-> NULL, messagesBefore |-> <<>>,
   summaries |-> <<>>, replyText |-> "", parseThrew |-> FALSE, gen |-> <<>>,
   openBefore |-> <<>>, activeBefore |-> NULL, saved |-> None,
   basePrompt |-> NULL]

\* ArmedForAutoFix: the three parts of the context pass the truthiness tests
\* of handlePreviewError and handleAutoFix.
Armed == Truthy(lastUserPrompt) /\ IsSome(lastAiActions) /\ IsSome(lastFileState)
ContextEmpty == lastUserPrompt = NULL /\ lastAiActions = None /\ lastFileState = None

SetContext(prompt, actions, fileState) ==
  /\ lastUserPrompt' = prompt
  /\ lastAiActions' = actions
  /\ lastFileState' = fileState

ctxVars == <<lastUserPrompt, lastAiActions, lastFileState>>
treeVars == <<files, activeFileId, openFileIds>>

\* openFileIds.map(id => findFileById(files, id)).filter(Boolean)  (line 140)
RECURSIVE OpenFiles(_, _)
OpenFiles(tree, openIds) ==
  IF openIds = <<>> THEN <<>>
  ELSE LET f == findFileById(tree, Head(openIds))
       IN (IF IsSome(f) THEN <<The(f)>> ELSE <<>>) \o OpenFiles(tree, Tail(openIds))

\* new Map(flat.map(n => [n.id, n.path])).get(id): the last entry of that id.
RECURSIVE PathOf(_, _)
PathOf(flat, id) ==
  IF flat = <<>> THEN UNDEF
  ELSE LET last == flat[Len(flat)]
       IN IF last.id = id THEN last.path ELSE PathOf(SubSeq(flat, 1, Len(flat) - 1), id)

ContentOf(node) == IF HasContent(node) THEN node.content ELSE UNDEF

\* The prompt of handleSendMessage (App.tsx 328-339), as the data it is
\* printed from.
SendPrompt(prompt, tree, openIds) ==
  LET flat == getFlattenedFileTree(tree, "./")
      open == OpenFiles(tree, openIds)
      Entry(file) ==
        [path |-> IF Truthy(PathOf(flat, file.id)) THEN PathOf(flat, file.id)
                  ELSE file.name,
         id |-> file.id,
         content |-> Str(ContentOf(file))]
  IN [variant |-> "user", request |-> prompt, failedActions |-> None, error |-> "",
      fileStructure |-> getCleanFileTree(tree),
      openFilesContext |-> [i \in DOMAIN open |-> Entry(open[i])]]

\* The auto-fix prompt that reads the open files' contents from the current tree.
AutoFixPromptFromCurrent(prompt, failed, fileState, tree, openIds, errorMessage) ==
  LET flat == getFlattenedFileTree(fileState, "./")
      open == OpenFiles(tree, openIds)
      Entry(file) ==
        [path |-> IF Truthy(PathOf(flat, file.id)) THEN PathOf(flat, file.id)
                  ELSE file.name,
         id |-> file.id,
         content |-> IF Truthy(ContentOf(file)) THEN ContentOf(file) ELSE ""]
  IN [variant |-> "fix", request |-> prompt, failedActions |-> failed,
      error |-> errorMessage,
      fileStructure |-> getCleanFileTree(fileState),
      openFilesContext |-> [i \in DOMAIN open |-> Entry(open[i])]]

\* The prompt of handleAutoFix (App.tsx 197-229): `tree` and `openIds` are the
\* current tree and tabs, `fileState` is lastFileState.
AutoFixPrompt(prompt, failed, fileState, tree, openIds, errorMessage) ==
  LET flat == getFlattenedFileTree(fileState, "./")
      open == OpenFiles(tree, openIds)
      Saved(file) == findFileById(fileState, file.id)
      Entry(file) ==
        [path |-> IF Truthy(PathOf(flat, file.id)) THEN PathOf(flat, file.id)
                  ELSE file.name,
         id |-> file.id,
         content |-> IF IsSome(Saved(file)) /\ Truthy(ContentOf(The(Saved(file))))
                     THEN ContentOf(The(Saved(file))) ELSE ""]
  IN [variant |-> "fix", request |-> prompt, failedActions |-> failed,
      error |-> errorMessage,
      fileStructure |-> getCleanFileTree(fileState),
      openFilesContext |-> [i \in DOMAIN open |-> Entry(open[i])]]

\* The state a render of App hands to the handlers it creates: they read these
\* values from their closure, not the state at the time they run (App.tsx
\* 125-140).  `cycle` is history: the user prompt the render's context is of.
Render ==
  [files |-> files, openFileIds |-> openFileIds, activeFileId |-> activeFileId,
   messages |-> messages, isLoading |-> isLoading,
   lastUserPrompt |-> lastUserPrompt, lastAiActions |-> lastAiActions,
   lastFileState |-> lastFileState, cycle |-> ctxCycle]

\* What a handler invocation of render `r` holds across its await: its closure
\* and the request it sent.  `cycle` is history: the number of the user prompt
\* the call belongs to.
Call(kind, prompt, fullPrompt, cycle, r) ==
  [kind |-> kind, prompt |-> prompt, files |-> r.files, openFileIds |-> r.openFileIds,
   activeFileId |-> r.activeFileId, messages |-> r.messages,
   lastUserPrompt |-> r.lastUserPrompt, lastAiActions |-> r.lastAiActions,
   lastFileState |-> r.lastFileState, fullPrompt |-> fullPrompt,
   cycle |-> cycle]

RemoveAt(seq, i) == SubSeq(seq, 1, i - 1) \o SubSeq(seq, i + 1, Len(seq))

(***************************************************************************)
(* Initial state: nothing persisted, so useLocalStorage yields the defaults *)
(***************************************************************************)
EngineInit ==
  /\ files = INITIAL_FILES
  /\ activeFileId = "1-1"
  /\ openFileIds = <<"1-1", "1-2", "1-3", "2">>
  /\ messages = <<>>
  /\ isLoading = FALSE
  /\ lastUserPrompt = NULL
  /\ lastAiActions = None
  /\ lastFileState = None
  /\ calls = <<>>
  /\ viewMode = "editor"
  /\ onError = None
  /\ ids = 0
  /\ nCalls = 0
  /\ event = Event("init")
  /\ cyclePrompt = NULL
  /\ promptsIssued = 0
  /\ autoFixCalls = 0
  /\ ctxCycle = 0
  /\ staleDiscarded = FALSE

StoreEvent(op, src, id, content, parentId, node) ==
  [op |-> op, src |-> src, id |-> id, content |-> content, parentId |-> parentId,
   node |-> node, path |-> <<>>]

Init ==
  /\ EngineInit
  /\ heap = <<>>
  /\ held = <<>>
  /\ storeEvent = StoreEvent("none", 0, UNDEF, UNDEF, UNDEF, None)

(***************************************************************************)
(* Editor and tab handlers (App.tsx 142-159, CodeEditor.tsx)               *)
(***************************************************************************)
\* The editor is mounted for the active file only (CodeEditor.tsx 63-73).
handleCodeChange(id, content) ==
  /\ viewMode = "editor"
  /\ id = activeFileId
  /\ IsSome(findFileById(files, id)) /\ The(findFileById(files, id)).type = "file"
  /\ The(findFileById(files, id)).content # content
  /\ files' = updateFileContentPure(files, id, content)
  /\ event' = Event("handleCodeChange")
  /\ UNCHANGED <<frameVars, storeVars, activeFileId, openFileIds, messages, isLoading, ctxVars, calls, ids,
                 nCalls, cyclePrompt, promptsIssued, autoFixCalls, ctxCycle,
                 staleDiscarded>>

\* A click on a file of the explorer (part_002 20-26).
handleFileSelect(id) ==
  /\ IsSome(findFileById(files, id)) /\ The(findFileById(files, id)).type # "folder"
  /\ activeFileId' = id
  /\ openFileIds' = IF Includes(openFileIds, id) THEN openFileIds
                    ELSE Append(openFileIds, id)
  /\ event' = Event("handleFileSelect")
  /\ UNCHANGED <<frameVars, storeVars, files, messages, isLoading, ctxVars, calls, ids,
                 nCalls, cyclePrompt, promptsIssued, autoFixCalls, ctxCycle,
                 staleDiscarded>>

\* handleCloseFile without the promotion of another tab.
handleCloseFileKeepsActive(id) ==
  /\ viewMode = "editor"
  /\ \E i \in DOMAIN OpenFiles(files, openFileIds) : OpenFiles(files, openFileIds)[i].id = id
  /\ openFileIds' = Filter(openFileIds, id)
  /\ event' = Event("handleCloseFile")
  /\ UNCHANGED <<frameVars, storeVars, files, activeFileId, messages, isLoading, ctxVars,
                 calls, ids, nCalls, cyclePrompt, promptsIssued, autoFixCalls, ctxCycle,
                 staleDiscarded>>

\* A click on the close button of a tab (CodeEditor.tsx 37-40, 45-59).
handleCloseFile(id) ==
  /\ viewMode = "editor"
  /\ \E i \in DOMAIN OpenFiles(files, openFileIds) : OpenFiles(files, openFileIds)[i].id = id
  /\ LET newOpenFileIds == Filter(openFileIds, id)
     IN /\ openFileIds' = newOpenFileIds
        /\ activeFileId' = IF activeFileId = id
                           THEN (IF Len(newOpenFileIds) > 0 THEN newOpenFileIds[1] ELSE NULL)
                           ELSE activeFileId
  /\ event' = Event("handleCloseFile")
  /\ UNCHANGED <<frameVars, storeVars, files, messages, isLoading, ctxVars, calls, ids,
                 nCalls, cyclePrompt, promptsIssued, autoFixCalls, ctxCycle,
                 staleDiscarded>>

(***************************************************************************)
(* The user-prompt path                                                    *)
(***************************************************************************)
\* The context handleSendMessage sets before its await (App.tsx 320-323).
ContextAfterPrompt == <<NULL, None, None>>

\* ChatAssistant.handleSubmit (23-29) and handleSendMessage up to its await
\* (App.tsx 315-341).
handleSubmit(input) ==
  /\ ~isLoading
  /\ nCalls < MaxCalls
  /\ isLoading' = TRUE
  /\ messages' = Append(messages, Message("user", input, FALSE, FALSE))
  /\ SetContext(ContextAfterPrompt[1], ContextAfterPrompt[2], ContextAfterPrompt[3])
  /\ calls' = Append(calls, Call("send", input, SendPrompt(input, files, openFileIds),
                                 promptsIssued + 1, Render))
  /\ nCalls' = nCalls + 1
  /\ promptsIssued' = promptsIssued + 1
  /\ cyclePrompt' = input
  /\ autoFixCalls' = 0
  /\ staleDiscarded' = Armed
  /\ event' = [Event("handleSubmit") EXCEPT !.wasArmed = Armed,
                                            !.pendingBefore = Len(calls)]
  /\ UNCHANGED <<frameVars, storeVars, treeVars, ids, ctxCycle>>

\* An exception that leaves handleSendMessage: no catch, no finally.
SendFailedUncaught(c, text) ==
  UNCHANGED <<messages, isLoading, treeVars, ctxVars>>

\* catch (error) of handleSendMessage (App.tsx 422-427): the closure's
\* setMessages appends to the messages of the render it was created in.
SendFailed(c, text) ==
  /\ messages' = Append(c.messages, Message("assistant", "Error: " \o text, TRUE, FALSE))
  /\ isLoading' = FALSE
  /\ UNCHANGED <<treeVars, ctxVars>>

\* getAiResponse resolved with `reply`: handleSendMessage after its await
\* (App.tsx 341-427).
SendResolve(i, reply, gen) ==
  /\ i \in DOMAIN calls /\ calls[i].kind = "send"
  /\ Len(gen) = IdsDrawn(reply)
  /\ LET c == calls[i]
         parsed == parseAiResponse(reply)
         st == SendFold(FoldState(c.files, c.openFileIds, c.activeFileId, <<>>, ids, gen),
                        The(parsed.value.actions))
         ok == ~parsed.threw /\ IsSome(parsed.value.actions)
         applied == ok /\ ~st.threw
     IN /\ calls' = RemoveAt(calls, i)
        /\ ids' = IF ok THEN st.ids ELSE ids
        /\ event' = [Event("SendResolve") EXCEPT
                       !.applied = applied,
                       !.didModify = applied /\ st.didModify,
                       !.batch = IF ok THEN The(parsed.value.actions) ELSE <<>>,
                       !.treeBefore = files, !.base = c.files,
                       !.closureFiles = c.files, !.parsed = parsed.value,
                       !.baseOpen = c.openFileIds, !.baseActive = c.activeFileId,
                       !.messagesBefore = messages,
                       !.summaries = IF ok THEN st.summaries ELSE <<>>,
                       !.replyText = reply.text, !.parseThrew = parsed.threw,
                       !.gen = gen, !.pendingBefore = Len(calls),
                       !.openBefore = openFileIds, !.activeBefore = activeFileId]
        /\ ctxCycle' = IF applied /\ st.didModify THEN c.cycle ELSE ctxCycle
        /\ IF parsed.threw THEN
             /\ messages' = Append(c.messages,
                  Message("assistant", "Failed to parse AI response:\n" \o parsed.message,
                          TRUE, FALSE))
             /\ isLoading' = FALSE
             /\ UNCHANGED <<treeVars, ctxVars>>
           ELSE IF parsed.value.kind = "null" THEN
             SendFailed(c, "Cannot read properties of null (reading 'actions')")
           ELSE IF ~IsSome(parsed.value.actions) THEN
             SendFailed(c, "AI returned an invalid action format.")
           ELSE IF st.threw THEN
             SendFailed(c, "Cannot read properties of null (reading 'type')")
           ELSE
             /\ files' = st.files
             /\ openFileIds' = st.open
             /\ activeFileId' = st.active
             /\ messages' =
                  IF Len(st.summaries) > 0
                  THEN Append(c.messages,
                         Message("assistant", Join(st.summaries, "\n"), FALSE, FALSE))
                  ELSE IF ~st.didModify
                  THEN Append(c.messages,
                         Message("assistant",
                           "I didn't make any changes. What would you like to do next?",
                           FALSE, FALSE))
                  ELSE messages
             /\ IF st.didModify
                THEN SetContext(c.prompt, Some(JsonArray(The(parsed.value.actions))),
                                Some(c.files))
                ELSE UNCHANGED ctxVars
             /\ isLoading' = FALSE
  /\ UNCHANGED <<frameVars, storeVars, nCalls, cyclePrompt, promptsIssued, autoFixCalls,
                 staleDiscarded>>

\* getAiResponse rejected (missing key, transport or backend error).
SendReject(i, text) ==
  /\ i \in DOMAIN calls /\ calls[i].kind = "send"
  /\ SendFailed(calls[i], text)
  /\ calls' = RemoveAt(calls, i)
  /\ event' = [Event("SendReject") EXCEPT
                 !.treeBefore = files, !.error = text,
                 !.messagesBefore = messages, !.pendingBefore = Len(calls),
                 !.openBefore = openFileIds, !.activeBefore = activeFileId]
  /\ UNCHANGED <<frameVars, storeVars, ids, nCalls, cyclePrompt, promptsIssued,
                 autoFixCalls, ctxCycle, staleDiscarded>>

(***************************************************************************)
(* The auto-fix path                                                       *)
(***************************************************************************)
\* The load listener of Preview (part_003 11-37): every render of App hands
\* Preview a new onError, the effect reloads the iframe, and when the new
\* document has loaded its window.onerror becomes a function calling the
\* onError of that render.  Until then the handler installed before stays.
handleLoad ==
  /\ viewMode = "preview"
  /\ onError # Some(Render)
  /\ onError' = Some(Render)
  /\ UNCHANGED <<appVars, viewMode, histVars, storeVars>>

\* The Preview/Editor button (App.tsx 513-518, 522-532): in the editor view
\* Preview is unmounted, and its iframe and the handler in it are gone.
setViewMode ==
  /\ viewMode' = IF viewMode = "editor" THEN "preview" ELSE "editor"
  /\ onError' = None
  /\ UNCHANGED <<appVars, histVars, storeVars>>

\* if (isLoading || !lastUserPrompt || !lastAiActions) return;  (App.tsx 302)
\* read from the closure of the render `r` the handler was created in.
PreviewErrorIgnored(r) ==
  r.isLoading \/ ~Truthy(r.lastUserPrompt) \/ ~IsSome(r.lastAiActions)

\* The iframe's window.onerror (part_003 21-24) calling the handlePreviewError
\* of the render it was installed from (App.tsx 301-313), which calls
\* handleAutoFix of that render up to its await (App.tsx 189-231).
handlePreviewError(errorMessage) ==
  /\ IsSome(onError)
  /\ LET r == The(onError)
         armed == Truthy(r.lastUserPrompt) /\ IsSome(r.lastAiActions)
                    /\ IsSome(r.lastFileState)
         autoFixMessage ==
           Message("assistant",
             "An error was detected in the preview. I will attempt to fix it.\n\nError: "
               \o errorMessage, FALSE, TRUE)
         noContext ==
           Message("assistant",
             "I don't have enough context to attempt a fix. Please try your last request again.",
             TRUE, FALSE)
         ev == [Event("handlePreviewError") EXCEPT
                  !.error = errorMessage, !.wasArmed = armed,
                  !.wasLoading = isLoading, !.pendingBefore = Len(calls)]
     IN
     IF PreviewErrorIgnored(r) THEN
       /\ event' = [ev EXCEPT !.dropped = TRUE]
       /\ UNCHANGED <<appVars, nCalls, cyclePrompt, promptsIssued,
                      autoFixCalls, ctxCycle, staleDiscarded>>
     ELSE IF ~armed THEN
       /\ messages' = Append(r.messages, noContext)
       /\ event' = ev
       /\ UNCHANGED <<treeVars, isLoading, ctxVars, calls, ids, nCalls, cyclePrompt,
                      promptsIssued, autoFixCalls, ctxCycle, staleDiscarded>>
     ELSE
       /\ nCalls < MaxCalls
       /\ messages' = Append(r.messages, autoFixMessage)
       /\ isLoading' = TRUE
       /\ calls' = Append(calls,
            Call("fix", r.lastUserPrompt,
                 AutoFixPrompt(r.lastUserPrompt, r.lastAiActions, The(r.lastFileState),
                               r.files, r.openFileIds, errorMessage),
                 r.cycle, r))
       /\ nCalls' = nCalls + 1
       /\ autoFixCalls' = autoFixCalls + 1
       /\ event' = ev
       /\ UNCHANGED <<treeVars, ctxVars, ids, cyclePrompt, promptsIssued,
                      ctxCycle, staleDiscarded>>
  /\ UNCHANGED <<frameVars, storeVars>>

\* A catch clause of handleAutoFix that keeps the context.
ContextAfterFixFailureKept == <<lastUserPrompt, lastAiActions, lastFileState>>

\* The context after the catch clause of handleAutoFix (App.tsx 293-295).
ContextAfterFixFailure == <<NULL, None, None>>

\* The catch clause of handleAutoFix without the finally clause after it.
FixFailedNoFinally(c, text) ==
  /\ messages' = Append(c.messages,
       Message("assistant", "Auto-fix failed: " \o text, TRUE, FALSE))
  /\ SetContext(ContextAfterFixFailure[1], ContextAfterFixFailure[2],
                ContextAfterFixFailure[3])
  /\ UNCHANGED <<isLoading, treeVars>>

\* catch (error) and finally of handleAutoFix (App.tsx 290-298).
FixFailed(c, text) ==
  /\ messages' = Append(c.messages,
       Message("assistant", "Auto-fix failed: " \o text, TRUE, FALSE))
  /\ SetContext(ContextAfterFixFailure[1], ContextAfterFixFailure[2],
                ContextAfterFixFailure[3])
  /\ isLoading' = FALSE
  /\ UNCHANGED treeVars

\* getAiResponse resolved with `reply`: handleAutoFix after its await (App.tsx
\* 231-298).  `dialog` is what window.prompt returns: setLastUserPrompt(prompt)
\* on line 280 passes the global function `prompt`, which React runs as a
\* state updater.
FixResolve(i, reply, dialog, gen) ==
  /\ i \in DOMAIN calls /\ calls[i].kind = "fix"
  /\ Len(gen) = IdsDrawn(reply)
  /\ LET c == calls[i]
         parsed == parseAiResponse(reply)
         st == FixFold(FoldState(The(c.lastFileState), c.openFileIds, c.activeFileId,
                                 <<"Auto-fix applied:">>, ids, gen),
                       The(parsed.value.actions))
         ok == ~parsed.threw /\ IsSome(parsed.value.actions)
         applied == ok /\ ~st.threw
     IN /\ calls' = RemoveAt(calls, i)
        /\ ids' = IF ok THEN st.ids ELSE ids
        /\ (dialog # NULL => applied /\ st.didModify)
        /\ event' = [Event("FixResolve") EXCEPT
                       !.applied = applied,
                       !.didModify = applied /\ st.didModify,
                       !.batch = IF ok THEN The(parsed.value.actions) ELSE <<>>,
                       !.treeBefore = files, !.base = The(c.lastFileState),
                       !.closureFiles = c.files, !.parsed = parsed.value,
                       !.baseOpen = c.openFileIds, !.baseActive = c.activeFileId,
                       !.messagesBefore = messages,
                       !.summaries = IF ok THEN st.summaries ELSE <<>>,
                       !.replyText = reply.text, !.parseThrew = parsed.threw,
                       !.gen = gen, !.pendingBefore = Len(calls),
                       !.openBefore = openFileIds, !.activeBefore = activeFileId,
                       !.saved = lastFileState, !.basePrompt = c.lastUserPrompt]
        /\ ctxCycle' = IF applied /\ st.didModify THEN c.cycle ELSE ctxCycle
        /\ IF parsed.threw THEN FixFailed(c, parsed.message)
           ELSE IF parsed.value.kind = "null" THEN
             FixFailed(c, "Cannot read properties of null (reading 'actions')")
           ELSE IF ~IsSome(parsed.value.actions) THEN
             FixFailed(c, "AI returned an invalid action format during auto-fix.")
           ELSE IF st.threw THEN
             FixFailed(c, "Cannot read properties of null (reading 'type')")
           ELSE
             /\ files' = st.files
             /\ openFileIds' = st.open
             /\ activeFileId' = st.active
             /\ IF st.didModify
                THEN SetContext(dialog, Some(parsed.value), Some(c.files))
                ELSE SetContext(NULL, None, None)
             /\ messages' = Append(c.messages,
                  Message("assistant", Join(st.summaries, "\n"), FALSE, TRUE))
             /\ isLoading' = FALSE
  /\ UNCHANGED <<frameVars, storeVars, nCalls, cyclePrompt, promptsIssued, autoFixCalls,
                 staleDiscarded>>

FixReject(i, text) ==
  /\ i \in DOMAIN calls /\ calls[i].kind = "fix"
  /\ FixFailed(calls[i], text)
  /\ calls' = RemoveAt(calls, i)
  /\ event' = [Event("FixReject") EXCEPT !.treeBefore = files, !.error = text]
  /\ UNCHANGED <<frameVars, storeVars, ids, nCalls, cyclePrompt, promptsIssued,
                 autoFixCalls, ctxCycle, staleDiscarded>>

(***************************************************************************)
(* The engine                                                              *)
(***************************************************************************)
\* Slots of `calls` a reply can arrive for.
CallSlots == 1 .. (Len(calls) + 1)

FileIds == {"1", "1-1", "1-2", "2"}

Next ==
  \/ \E input \in Prompts : input = PromptAt(promptsIssued) /\ handleSubmit(input)
  \/ \E i \in CallSlots, reply \in EngineReplies : SendResolve(i, reply, <<>>)
  \/ \E i \in CallSlots, text \in RejectMessages : SendReject(i, text)
  \/ setViewMode
  \/ handleLoad
  \/ \E errorMessage \in ErrorMessages : handlePreviewError(errorMessage)
  \/ \E i \in CallSlots, reply \in EngineReplies, dialog \in DialogResults :
       FixResolve(i, reply, dialog, <<>>)
  \/ \E i \in CallSlots, text \in RejectMessages : FixReject(i, text)
  \/ \E id \in FileIds, content \in ManualContents : handleCodeChange(id, content)

Spec == Init /\ [][Next]_vars

(***************************************************************************)
(* The engine run for a few rounds with every kind of reply: batches with  *)
(* well-formed and malformed actions, replies of another shape, rejected   *)
(* calls, and every id the generator can give.                             *)
(***************************************************************************)
MaxRounds == 2     \* model calls issued in a run with every kind of reply

\* Date.now() when a reply is handled: later than for the replies handled
\* before it (the calls answered so far are counted).
Now == Timestamp(nCalls - Len(calls))

\* What the generator can give to the create actions of a reply.
GenSeqs(reply) == [1 .. IdsDrawn(reply) -> Draws(Now)]

\* window.prompt cancelled, or text typed into it.
BatchDialogResults == {NULL, "typed"}

\* In these runs the user looks at the preview once a batch has armed the
\* context and no call is pending, the page of an armed context has loaded
\* before the next prompt is typed, and the page fails after it has loaded.
PageLoaded == viewMode = "preview" /\ Armed => onError = Some(Render)
BatchSubmit(input) == nCalls < MaxRounds /\ PageLoaded /\ handleSubmit(input)
BatchSetViewMode == ~isLoading /\ Armed /\ viewMode = "editor" /\ setViewMode
BatchLoad == ~isLoading /\ Armed /\ handleLoad
BatchPreviewError(errorMessage) ==
  nCalls < MaxRounds /\ onError = Some(Render) /\ handlePreviewError(errorMessage)

NextBatch ==
  \/ \E input \in Prompts : input = PromptAt(promptsIssued) /\ BatchSubmit(input)
  \/ \E i \in CallSlots, reply \in Replies : \E gen \in GenSeqs(reply) :
       SendResolve(i, reply, gen)
  \/ \E i \in CallSlots, text \in BackendRejectMessages : SendReject(i, text)
  \/ BatchSetViewMode
  \/ BatchLoad
  \/ \E errorMessage \in ErrorMessages : BatchPreviewError(errorMessage)
  \/ \E i \in CallSlots, reply \in Replies, dialog \in BatchDialogResults :
       \E gen \in GenSeqs(reply) : FixResolve(i, reply, dialog, gen)
  \/ \E i \in CallSlots, text \in BackendRejectMessages : FixReject(i, text)

SpecBatch == Init /\ [][NextBatch]_vars

(***************************************************************************)
(* The engine with calls that settle: every pending call is resolved or    *)
(* rejected in the end, and the continuation of the handler that awaits it *)
(* then runs.  The replies take every branch after the await: a batch that *)
(* is applied, text that does not parse, JSON without an actions array,    *)
(* JSON null, a batch whose null element makes the loop throw, and a batch *)
(* that deletes a file that does not exist.                                *)
(***************************************************************************)
MaxLiveCalls == 2  \* model calls issued in a run whose calls settle

LiveReplies ==
  EngineReplies
    \cup {ReplyNoActions, ReplyJsonNull, ReplyOk(<<Chat("hi"), NullElement>>),
          ReplyOk(<<Delete("does-not-exist")>>)}

LiveSubmit(input) == nCalls < MaxLiveCalls /\ handleSubmit(input)
LivePreviewError(errorMessage) ==
  nCalls < MaxLiveCalls /\ handlePreviewError(errorMessage)

\* A pending call settles and its handler runs to its end.
Settle ==
  \/ \E i \in CallSlots, reply \in LiveReplies : SendResolve(i, reply, <<>>)
  \/ \E i \in CallSlots, text \in BackendRejectMessages : SendReject(i, text)
  \/ \E i \in CallSlots, reply \in LiveReplies, dialog \in DialogResults :
       FixResolve(i, reply, dialog, <<>>)
  \/ \E i \in CallSlots, text \in BackendRejectMessages : FixReject(i, text)

NextLive ==
  \/ \E input \in Prompts : input = PromptAt(promptsIssued) /\ LiveSubmit(input)
  \/ Settle
  \/ setViewMode
  \/ handleLoad
  \/ \E errorMessage \in ErrorMessages : LivePreviewError(errorMessage)

SpecLive == Init /\ [][NextLive]_vars /\ WF_vars(Settle)

(***************************************************************************)
(* The engine with the tab handlers: the user selects files in the         *)
(* explorer and closes tabs, before, between and while calls are pending,  *)
(* and the replies are batches that edit a file or a folder, delete a file *)
(* and then its folder, create under a parent that does not exist, only    *)
(* chat, or throw after an edit.                                           *)
(***************************************************************************)
MaxTabCalls == 2   \* model calls issued in a run with the tab handlers

\* The files the user clicks on: one with a tab in the initial state, and one
\* without.
TabIds == {"1-1"}

TabBatches ==
  { <<Chat("hi")>>,
    <<Edit("1", "x")>>,
    <<Edit("1-1", "x")>>,
    <<Create("does-not-exist", "b.js", "file", "y")>>,
    <<Delete("1-1"), Delete("1")>>,
    <<Edit("1-2", "x"), NullElement>> }

TabReplies == {ReplyOk(b) : b \in TabBatches}

TabSubmit(input) == nCalls < MaxTabCalls /\ PageLoaded /\ handleSubmit(input)
TabPreviewError(errorMessage) ==
  nCalls < MaxTabCalls /\ onError = Some(Render) /\ handlePreviewError(errorMessage)
TabSetViewMode == ~isLoading /\ (viewMode = "editor" => Armed) /\ setViewMode
TabLoad == ~isLoading /\ Armed /\ handleLoad

NextTabs ==
  \/ \E input \in Prompts : input = PromptAt(promptsIssued) /\ TabSubmit(input)
  \/ \E i \in CallSlots, reply \in TabReplies : \E gen \in GenSeqs(reply) :
       SendResolve(i, reply, gen)
  \/ TabSetViewMode
  \/ TabLoad
  \/ \E errorMessage \in ErrorMessages : TabPreviewError(errorMessage)
  \/ \E i \in CallSlots, reply \in TabReplies, dialog \in BatchDialogResults :
       \E gen \in GenSeqs(reply) : FixResolve(i, reply, dialog, gen)
  \/ \E id \in TabIds : handleFileSelect(id)
  \/ \E id \in TabIds : handleCloseFile(id)

SpecTabs == Init /\ [][NextTabs]_vars

(***************************************************************************)
(* The engine with the handlers the preview holds, as in Spec, and replies *)
(* that modify the tree or throw after an edit.                            *)
(***************************************************************************)
ThrowingReplies ==
  {ReplyOk(<<Edit("1-1", "x")>>), ReplyOk(<<Edit("1-2", "x"), NullElement>>)}

NextThrowing ==
  \/ \E input \in Prompts : input = PromptAt(promptsIssued) /\ handleSubmit(input)
  \/ \E i \in CallSlots, reply \in ThrowingReplies : SendResolve(i, reply, <<>>)
  \/ setViewMode
  \/ handleLoad
  \/ \E errorMessage \in ErrorMessages : handlePreviewError(errorMessage)
  \/ \E i \in CallSlots, reply \in ThrowingReplies, dialog \in BatchDialogResults :
       FixResolve(i, reply, dialog, <<>>)

SpecThrowing == Init /\ [][NextThrowing]_vars

(***************************************************************************)
(* The tree store alone: callers hold the trees the store returned and     *)
(* call it again on any of them, as the engine does with the tree of a     *)
(* render, the saved tree of the context and the tree being folded.        *)
(***************************************************************************)
MaxTrees == 3      \* trees held in a run of the store

\* Arguments of the calls: ids of files and folders of INITIAL_FILES, of the
\* created nodes, and an id no node has.
UpdateIds == {"1-1", "1", "n1"}
DeleteIds == {"1", "n1", "absent"}
ParentIds == {NULL, "1", "n2", "2", UNDEF}
UpdateContents == {"x"}
NewNodes == {FileNode("n1", "a.js", "y"), FolderNode("n2", "lib", <<>>)}

Held(a, h) == [root |-> a, value |-> Deref(h, a)]

\* The caller keeps the tree r the store returned.
Hold(r) ==
  /\ heap' = r.h
  /\ held' = Append(held, Held(r.a, r.h))

InitialTree(r) ==
  /\ heap = r.h
  /\ held = <<Held(r.a, r.h)>>

InitStore ==
  /\ EngineInit
  /\ InitialTree(AllocTree(<<>>, INITIAL_FILES))
  /\ storeEvent = StoreEvent("none", 0, UNDEF, UNDEF, UNDEF, None)

\* handleCodeChange and the edit branch: updateFileContentPure(t, id, content)
CallUpdate(t, id, content) ==
  /\ Len(held) < MaxTrees
  /\ Hold(HeapUpdate(heap, held[t].root, id, content))
  /\ storeEvent' = StoreEvent("update", t, id, content, UNDEF, None)
  /\ UNCHANGED <<appVars, frameVars, histVars>>

\* addFileOrFolderPure(t, parentId, newNode), newNode being the new object
AddNew(newNode, targetFiles, parentId) ==
  HeapAdd(newNode.h, targetFiles, parentId, newNode.a)

\* The create branch: a new node object with an id no node of the tree has
\* (App.tsx 379-381), then addFileOrFolderPure(t, parentId, newNode).
CallAdd(t, parentId, node) ==
  /\ Len(held) < MaxTrees
  /\ ~IsSome(findFileById(held[t].value, node.id))
  /\ Hold(AddNew(AllocNode(heap, node), held[t].root, parentId))
  /\ storeEvent' = StoreEvent("add", t, node.id, UNDEF, parentId, Some(node))
  /\ UNCHANGED <<appVars, frameVars, histVars>>

\* The delete branch: deleteFileOrFolderPure(t, id)
CallDelete(t, id) ==
  /\ Len(held) < MaxTrees
  /\ Hold(HeapDelete(heap, held[t].root, id))
  /\ storeEvent' = StoreEvent("delete", t, id, UNDEF, UNDEF, None)
  /\ UNCHANGED <<appVars, frameVars, histVars>>

NextStore ==
  \/ \E t \in DOMAIN held, id \in UpdateIds, content \in UpdateContents :
       CallUpdate(t, id, content)
  \/ \E t \in DOMAIN held, parentId \in ParentIds, node \in NewNodes :
       CallAdd(t, parentId, node)
  \/ \E t \in DOMAIN held, id \in DeleteIds : CallDelete(t, id)

SpecStore == InitStore /\ [][NextStore]_vars

(***************************************************************************)
(* findFileByPath alone: the preview looks paths up in the tree it is      *)
(* rendered with (App.tsx 430-457), 'project/index.html' and 'project/'    *)
(* followed by whatever href or src the page has.                          *)
(***************************************************************************)
MaxSegments == 3   \* pieces of a path

\* Names of nodes of the trees, a name no node has, the empty piece (of "//"
\* or of a "/" at either end) and ".".
PathNames == {"project", "index.html", "style.css", "lib", "a.js", "missing", "", "."}

Paths == UNION {[1 .. n -> PathNames] : n \in 1 .. MaxSegments}

\* Trees the engine can hold: the initial one, with a folder lib and a file
\* in it put under project, without index.html, and with a file at the root.
PathTrees ==
  { INITIAL_FILES,
    addFileOrFolderPure(
      addFileOrFolderPure(INITIAL_FILES, "1", FolderNode("n2", "lib", <<>>)),
      "n2", FileNode("n1", "a.js", "y")),
    deleteFileOrFolderPure(INITIAL_FILES, "1-1"),
    addFileOrFolderPure(INITIAL_FILES, NULL, FileNode("n1", "a.js", "y")) }

InitPath ==
  /\ files \in PathTrees
  /\ activeFileId = "1-1"
  /\ openFileIds = <<"1-1", "1-2", "1-3", "2">>
  /\ messages = <<>>
  /\ isLoading = FALSE
  /\ lastUserPrompt = NULL
  /\ lastAiActions = None
  /\ lastFileState = None
  /\ calls = <<>>
  /\ viewMode = "preview"
  /\ onError = None
  /\ ids = 0
  /\ nCalls = 0
  /\ event = Event("init")
  /\ cyclePrompt = NULL
  /\ promptsIssued = 0
  /\ autoFixCalls = 0
  /\ ctxCycle = 0
  /\ staleDiscarded = FALSE
  /\ heap = <<>>
  /\ held = <<>>
  /\ storeEvent = StoreEvent("none", 0, UNDEF, UNDEF, UNDEF, None)

\* findFileByPath(files, path), once in a run
CallFindFileByPath(path) ==
  /\ storeEvent.op = "none"
  /\ storeEvent' = [StoreEvent("findFileByPath", 0, UNDEF, UNDEF, UNDEF,
                               findFileByPath(files, path))
                      EXCEPT !.path = path]
  /\ UNCHANGED <<appVars, frameVars, histVars, heap, held>>

NextPath == \E path \in Paths : CallFindFileByPath(path)

SpecPath == InitPath /\ [][NextPath]_vars

(***************************************************************************)
(* Properties of the engine                                                *)
(***************************************************************************)
HasModifyingAction(batch) ==
  \E i \in DOMAIN batch : batch[i].type \in {"edit", "create", "delete"}

Completions == {"SendResolve", "SendReject", "FixResolve", "FixReject"}

\* C1: between two consecutive user prompts at most one auto-fix model call
\* is issued: once an auto-fix batch has been applied, a further preview
\* error starts no model call.
C1_AtMostOneAutoFixPerPrompt == autoFixCalls <= 1

\* C2: in every reachable state at most one model call is pending.
C2_AtMostOnePendingCall == Len(calls) <= 1

\* C3: a preview error that arrives while isLoading is true is dropped: it
\* starts no call, appends nothing to the transcript and leaves the tree and
\* the context as they are.
C3_ErrorWhileLoadingDropped ==
  (event.name = "handlePreviewError" /\ event.wasLoading) => event.dropped

\* C4: a user prompt empties the Correction Context at once, an armed context
\* always belongs to the latest user prompt, and every auto-fix call is driven
\* by a context of the latest user prompt.
C4_NoStaleContext ==
  /\ (event.name = "handleSubmit" => ContextEmpty)
  /\ (~ContextEmpty => ctxCycle = promptsIssued)
  /\ \A i \in DOMAIN calls : calls[i].kind = "fix" => calls[i].cycle = promptsIssued

\* C5: when a well-formed reply whose batch modifies the tree has been
\* applied, the Correction Context holds the tree as it was immediately before
\* the application, the text of the user prompt, and the applied batch.
C5_ContextHoldsPreTreePromptBatch ==
  (event.name \in {"SendResolve", "FixResolve"} /\ event.applied /\ event.didModify)
    => /\ lastFileState = Some(event.treeBefore)
       /\ lastUserPrompt = cyclePrompt
       /\ lastAiActions = Some(JsonArray(event.batch))

\* C6: after a well-formed reply is applied, the context is armed if and only
\* if the batch has an edit, create or delete action; a batch of chat actions
\* or an empty batch leaves no context.
C6_ArmedIffBatchModifies ==
  (event.name = "SendResolve" /\ event.applied)
    => /\ Armed <=> HasModifyingAction(event.batch)
       /\ ~HasModifyingAction(event.batch) => ContextEmpty

\* The content of file `id` in the tree, as the auto-fix prompt prints it.
SavedContent(tree, id) ==
  LET f == findFileById(tree, id)
  IN IF IsSome(f) /\ HasContent(The(f)) /\ Truthy(The(f).content)
     THEN The(f).content ELSE ""

ReturnedTree == held[Len(held)]
SourceTree == held[storeEvent.src]

\* The operators on values, which the engine is written with, return the
\* value of the tree the code builds on the heap.
StoreAgreesWithValues ==
  /\ storeEvent.op = "update" =>
       ReturnedTree.value = updateFileContentPure(SourceTree.value, storeEvent.id, storeEvent.content)
  /\ storeEvent.op = "add" =>
       ReturnedTree.value
         = addFileOrFolderPure(SourceTree.value, storeEvent.parentId, The(storeEvent.node))
  /\ storeEvent.op = "delete" =>
       ReturnedTree.value = deleteFileOrFolderPure(SourceTree.value, storeEvent.id)

\* C9: every call of the store returns a new tree, and every tree held keeps
\* the value it had when it was returned, whatever calls are made afterwards
\* on it or on trees derived from it; after T' = update(T, id, c), looking id
\* up in T still gives the content T had.
C9_CopyOnWriteIsolation ==
  /\ \A t \in DOMAIN held : Deref(heap, held[t].root) = held[t].value
  /\ \A t, u \in DOMAIN held : t # u => held[t].root # held[u].root
  /\ storeEvent.op = "update" =>
       findFileById(Deref(heap, SourceTree.root), storeEvent.id)
         = findFileById(SourceTree.value, storeEvent.id)

\* An update of a derived tree changed a file's content in the tree returned,
\* and the tree it was called on still has the old content.
C9_Witness ==
  /\ storeEvent.op = "update" /\ storeEvent.src > 1
  /\ IsSome(findFileById(ReturnedTree.value, storeEvent.id))
  /\ The(findFileById(ReturnedTree.value, storeEvent.id)).type = "file"
  /\ The(findFileById(ReturnedTree.value, storeEvent.id)).content = storeEvent.content
  /\ The(findFileById(Deref(heap, SourceTree.root), storeEvent.id)).content
       # storeEvent.content

\* p is null or the id of a folder of tree.
ValidParent(tree, p) ==
  p = NULL \/ (IsSome(findFileById(tree, p)) /\ The(findFileById(tree, p)).type = "folder")

\* C10: for every tree T (ids unique), every node n whose id T does not have
\* and every valid parent p, looking n.id up in insert(T, p, n) gives n; the
\* same holds of the tree the store built on the heap.
C10_FindAfterInsert ==
  /\ \A t \in DOMAIN held, n \in NewNodes, p \in ParentIds :
       (~IsSome(findFileById(held[t].value, n.id)) /\ ValidParent(held[t].value, p))
         => findFileById(addFileOrFolderPure(held[t].value, p, n), n.id) = Some(n)
  /\ (storeEvent.op = "add" /\ ValidParent(SourceTree.value, storeEvent.parentId))
       => findFileById(ReturnedTree.value, storeEvent.id) = storeEvent.node

\* A file was inserted under a folder that was itself inserted, and is found.
C10_Witness ==
  /\ storeEvent.op = "add" /\ storeEvent.parentId = "n2"
  /\ ValidParent(SourceTree.value, "n2")
  /\ findFileById(ReturnedTree.value, "n1") = Some(FileNode("n1", "a.js", "y"))

\* The nodes of a tree in depth-first order, with their paths.
Flat(tree) == getFlattenedFileTree(tree, "./")
IdSet(tree) == {Flat(tree)[i].id : i \in DOMAIN Flat(tree)}

\* No two nodes of the tree share an id.
UniqueIdsIn(flat) == \A i, j \in DOMAIN flat : flat[i].id = flat[j].id => i = j
UniqueIds(tree) == UniqueIdsIn(Flat(tree))

\* The ids of a node and of its descendants.
SubtreeIds(node) ==
  {node.id} \cup (IF node.type = "folder" /\ HasChildren(node)
                  THEN IdSet(node.children) ELSE {})

\* The listing `flat` without the nodes whose id is in D.
Without(flat, D) == SelectSeq(flat, LAMBDA e : e.id \notin D)

NodeContent(tree, id) == ContentOf(The(findFileById(tree, id)))

\* R is T without the subtree D: no id of D is found in R, and the nodes left
\* are those of T outside D, in the same order, with the same names, paths
\* and contents.
SubtreeRemoved(T, D, R) ==
  /\ \A d \in D : ~IsSome(findFileById(R, d))
  /\ Flat(R) = Without(Flat(T), D)
  /\ \A id \in IdSet(T) \ D :
       /\ IsSome(findFileById(R, id))
       /\ NodeContent(R, id) = NodeContent(T, id)

\* C11: for a node F of a tree T (a folder with its descendants D, or a file),
\* remove(T, F.id) is a tree in which F.id and every id of D is not found,
\* while every node outside F's subtree is found with its name, content and
\* place among its siblings unchanged; the same holds of the tree the store
\* built on the heap.
C11_DeleteRemovesSubtree ==
  /\ \A t \in DOMAIN held : \A id \in IdSet(held[t].value) :
       SubtreeRemoved(held[t].value,
                      SubtreeIds(The(findFileById(held[t].value, id))),
                      deleteFileOrFolderPure(held[t].value, id))
  /\ (storeEvent.op = "delete" /\ IsSome(findFileById(SourceTree.value, storeEvent.id)))
       => SubtreeRemoved(SourceTree.value,
                         SubtreeIds(The(findFileById(SourceTree.value, storeEvent.id))),
                         ReturnedTree.value)

\* The folder "project" was removed from a tree in which a node had been put
\* under it: its four descendants are gone and README.md is still found.
C11_Witness ==
  /\ storeEvent.op = "delete" /\ storeEvent.id = "1"
  /\ IsSome(findFileById(SourceTree.value, "1"))
  /\ Cardinality(SubtreeIds(The(findFileById(SourceTree.value, "1")))) = 5
  /\ ~IsSome(findFileById(ReturnedTree.value, "1-2"))
  /\ IsSome(findFileById(ReturnedTree.value, "2"))

(***************************************************************************)
(* Properties of the action loops                                          *)
(***************************************************************************)
Applications == {"SendResolve", "FixResolve"}

\* The state a loop starts from, on the current tree and tabs.
StartOn(tree, summaries, gen) ==
  FoldState(tree, openFileIds, activeFileId, summaries, ids, gen)

\* The id the k-th create action of the latest reply was given.
DrawnId(k) == NewId(event.gen[k].now, event.gen[k].random)

\* The batch of C12, its edit naming `id`.
CreateThenEdit(id) == <<Create(NULL, "a.js", "file", ""), Edit(id, "x")>>

\* The loop ended normally and left the file a.js with content "x" under `id`.
LeftEditedFile(st, id) ==
  ~st.threw /\ findFileById(st.files, id) = Some(FileNode(id, "a.js", "x"))

\* C12: a batch is folded left to right, each action against the tree the
\* actions before it produced: for [Create(null, "a.js", file, ""),
\* Edit(the id given to that create, "x")], in either loop and for every id
\* the generator can give, the resulting tree has the file a.js with content
\* "x"; and so has the tree of the application after such a reply.
C12_BatchOrderSensitivity ==
  /\ \A d \in Draws(Now) :
       /\ LeftEditedFile(SendFold(StartOn(files, <<>>, <<d>>),
                                  CreateThenEdit(NewId(d.now, d.random))),
                         NewId(d.now, d.random))
       /\ LeftEditedFile(FixFold(StartOn(files, <<"Auto-fix applied:">>, <<d>>),
                                 CreateThenEdit(NewId(d.now, d.random))),
                         NewId(d.now, d.random))
  /\ (event.name \in Applications /\ Len(event.gen) = 1
        /\ event.batch = CreateThenEdit(DrawnId(1)))
       => /\ event.applied
          /\ findFileById(files, DrawnId(1)) = Some(FileNode(DrawnId(1), "a.js", "x"))

\* The reply to a user prompt was [Create a.js, Edit <id>] and the create was
\* given that id: a.js is in the tree with content "x", and the summary tells
\* of the creation and of the update.
C12_Witness ==
  /\ event.name = "SendResolve" /\ event.batch = CreateThenEdit(GuessedId)
  /\ Len(event.gen) = 1 /\ DrawnId(1) = GuessedId
  /\ findFileById(files, GuessedId) = Some(FileNode(GuessedId, "a.js", "x"))
  /\ event.summaries = <<"Created file: a.js", "Updated file: a.js">>

\* The batch of C13.
EditMissingThenChat == <<Edit("does-not-exist", "y"), Chat("hi")>>

SkippedEditLine(fileId) ==
  "Skipped malformed 'edit' action for file ID " \o Str(fileId) \o "."

\* The loop ended normally on the tree it started from, with these summaries.
LeftTreeWith(st, tree, summaries) ==
  ~st.threw /\ st.files = tree /\ st.summaries = summaries

LastMessage == messages[Len(messages)]

\* C13: [Edit("does-not-exist", "y"), Chat("hi")] applied to any tree leaves
\* the tree as it was, gives a summary of one skipped line followed by the
\* chat message, and raises no failure: in either loop on every reachable
\* tree, and in the application after such a reply, whose transcript entry is
\* that summary and not an error.
C13_PartialFailureTolerance ==
  /\ LeftTreeWith(SendFold(StartOn(files, <<>>, <<>>), EditMissingThenChat), files,
                  <<SkippedEditLine("does-not-exist"), "hi">>)
  /\ LeftTreeWith(FixFold(StartOn(files, <<"Auto-fix applied:">>, <<>>),
                          EditMissingThenChat),
                  files,
                  <<"Auto-fix applied:", "- " \o SkippedEditLine("does-not-exist"),
                    "- hi">>)
  /\ (event.name \in Applications /\ event.batch = EditMissingThenChat)
       => /\ event.applied
          /\ files = event.base
          /\ event.summaries \in
               { <<SkippedEditLine("does-not-exist"), "hi">>,
                 <<"Auto-fix applied:", "- " \o SkippedEditLine("does-not-exist"),
                   "- hi">> }
          /\ ~LastMessage.isError
          /\ LastMessage.content = Join(event.summaries, "\n")

\* An auto-fix reply was that batch: the tree is the saved tree it was applied
\* to, and the transcript ends with the summary.
C13_Witness ==
  /\ event.name = "FixResolve" /\ event.batch = EditMissingThenChat
  /\ files = event.base
  /\ LastMessage.content
       = "Auto-fix applied:\n- Skipped malformed 'edit' action for file ID does-not-exist.\n- hi"

\* The loop of the latest application, run again on `batch` from the tree and
\* tabs it started from, with the ids it was given.
FoldAgain(batch) ==
  IF event.name = "SendResolve"
  THEN SendFold(FoldState(event.base, event.baseOpen, event.baseActive, <<>>, 0,
                          event.gen), batch)
  ELSE FixFold(FoldState(event.base, event.baseOpen, event.baseActive,
                         <<"Auto-fix applied:">>, 0, event.gen), batch)

\* The tree the k-th action of the latest batch met.
TreeAt(k) == FoldAgain(SubSeq(event.batch, 1, k - 1)).files

\* An action of the wrong shape for its type, or naming a node `tree` has not.
Malformed(action, tree) ==
  \/ action \in {NullElement, StringElement}
  \/ action.type = "edit"
       /\ (~IsString(action.content) \/ ~IsSome(findFileById(tree, action.fileId)))
  \/ action.type = "create"
       /\ (~IsString(action.name) \/ action.fileType \notin {"file", "folder"})
  \/ action.type = "delete" /\ ~IsSome(findFileById(tree, action.fileId))

MalformedAt == {k \in DOMAIN event.batch : Malformed(event.batch[k], TreeAt(k))}

\* A summary line telling that `action` was skipped, in the wording the loops
\* have for an edit (App.tsx 376, 255).
SkippedLines(action) ==
  { "Skipped malformed '" \o Str(action.type) \o "' action for file ID "
      \o Str(action.fileId) \o ".",
    "- Skipped malformed '" \o Str(action.type) \o "' action for file ID "
      \o Str(action.fileId) \o "." }

\* The summaries are those of `st` with one skipped line for `action` more.
OneSkippedLineMore(st, action) ==
  \E j \in DOMAIN event.summaries :
    /\ event.summaries[j] \in SkippedLines(action)
    /\ RemoveAt(event.summaries, j) = st.summaries

\* The application did what the loop does on the batch without its k-th
\* action, and wrote one skipped line for that action.
SkippedAt(k) ==
  /\ event.applied
  /\ files = FoldAgain(RemoveAt(event.batch, k)).files
  /\ openFileIds = FoldAgain(RemoveAt(event.batch, k)).open
  /\ activeFileId = FoldAgain(RemoveAt(event.batch, k)).active
  /\ OneSkippedLineMore(FoldAgain(RemoveAt(event.batch, k)), event.batch[k])

\* C14: when the reply's `actions` is a sequence with one malformed action
\* (an edit without content or of an unknown file, a create without name or
\* kind, a delete of an unknown id, an element that is no object), the batch
\* is not rejected: that action is skipped with a skipped line in the
\* summary, and the other actions are applied.
C14_MalformedActionSkipped ==
  (event.name \in Applications /\ IsSome(event.parsed.actions)
     /\ Cardinality(MalformedAt) = 1)
    => \A k \in MalformedAt : SkippedAt(k)

\* An action object whose type is none of the four.
UnknownType(action) ==
  IsString(action.type) /\ action \notin {NullElement}
    /\ action.type \notin {"edit", "create", "delete", "chat"}

\* C15: an action of a type that is none of edit, create, delete, chat is
\* not ignored silently: the summary of the application has a skipped line
\* naming its type, and the action leaves the tree unchanged.
C15_UnknownTypeRecorded ==
  (event.name \in Applications /\ event.applied)
    => \A k \in DOMAIN event.batch :
         UnknownType(event.batch[k])
           => /\ \E j \in DOMAIN event.summaries :
                   event.summaries[j] \in SkippedLines(event.batch[k])
              /\ TreeAt(k + 1) = TreeAt(k)

\* The edits of the latest batch whose fileId met no file: no node, or a folder.
EditsOfNoFile ==
  {k \in DOMAIN event.batch :
     /\ event.batch[k].type = "edit"
     /\ \/ ~IsSome(findFileById(TreeAt(k), event.batch[k].fileId))
        \/ The(findFileById(TreeAt(k), event.batch[k].fileId)).type # "file"}

\* C16: an edit whose fileId does not resolve to a file (no node has the id,
\* or a folder has it) fails softly: a skipped line is written, the tree, the
\* open tabs and the active file id are as without it, and the other actions
\* are applied.
C16_EditOfNoFileSkipped ==
  (event.name \in Applications /\ event.applied /\ Cardinality(EditsOfNoFile) = 1)
    => \A k \in EditsOfNoFile :
         /\ files = FoldAgain(RemoveAt(event.batch, k)).files
         /\ openFileIds = FoldAgain(RemoveAt(event.batch, k)).open
         /\ activeFileId = FoldAgain(RemoveAt(event.batch, k)).active
         /\ OneSkippedLineMore(FoldAgain(RemoveAt(event.batch, k)), event.batch[k])

\* How many of the first k actions of the latest batch are create actions.
CreatesUpTo(k) ==
  Cardinality({j \in 1 .. k : event.batch[j].type = "create"})

\* parentId names a folder of the tree.
ResolvesToFolder(tree, parentId) ==
  IsSome(findFileById(tree, parentId)) /\ The(findFileById(tree, parentId)).type = "folder"

AtRoot(tree, id) == \E i \in DOMAIN tree : tree[i].id = id

\* C17: a create action always succeeds structurally: after it the tree has
\* the new node, at root level when its parentId is null, missing, or does
\* not resolve to a folder.
C17_CreateAlwaysInserts ==
  (event.name \in Applications /\ event.applied)
    => \A k \in DOMAIN event.batch :
         event.batch[k].type = "create"
           => /\ IsSome(findFileById(TreeAt(k + 1), DrawnId(CreatesUpTo(k))))
              /\ ~ResolvesToFolder(TreeAt(k), event.batch[k].parentId)
                   => AtRoot(TreeAt(k + 1), DrawnId(CreatesUpTo(k)))

(***************************************************************************)
(* Properties of the failures                                              *)
(***************************************************************************)
\* The reply text did not parse into an object whose `actions` is an array.
MalformedReply == event.parseThrew \/ ~IsSome(event.parsed.actions)

\* What an error entry can say before the raw text of the reply.
RawPrefixes ==
  { "Failed to parse AI response:\nCould not find a valid JSON object in the response. Raw response: ",
    "Failed to parse AI response:\nNo valid JSON object found in the AI response. Raw response: ",
    "Auto-fix failed: Could not find a valid JSON object in the response. Raw response: ",
    "Auto-fix failed: No valid JSON object found in the AI response. Raw response: ",
    "Error: ", "Auto-fix failed: " }

HasRawText(content, text) == \E p \in RawPrefixes : content = p \o text

\* C18: after a malformed reply the engine is idle with isLoading false, the
\* transcript is the one before with one error entry more, which has the raw
\* text of the reply, the tree, the tabs and the active id are unchanged, no
\* context is armed and no call was started.
C18_MalformedReplySurfaced ==
  (event.name \in Applications /\ MalformedReply)
    => /\ ~isLoading
       /\ messages \in {Append(event.messagesBefore, m) : m \in {LastMessage}}
       /\ LastMessage.isError
       /\ HasRawText(LastMessage.content, event.replyText)
       /\ files = event.treeBefore
       /\ openFileIds = event.openBefore /\ activeFileId = event.activeBefore
       /\ ~Armed
       /\ Len(calls) = event.pendingBefore - 1

\* The latest step was the end of a request/apply cycle by a failure.
Failed ==
  \/ event.name \in {"SendReject", "FixReject"}
  \/ event.name \in Applications /\ ~event.applied

\* What the entry of a failure says: the message of the exception, after the
\* words of the catch clause that caught it.
FailureTexts ==
  { "Could not find a valid JSON object in the response. Raw response: " \o event.replyText,
    "No valid JSON object found in the AI response. Raw response: " \o event.replyText,
    "AI returned an invalid action format.",
    "AI returned an invalid action format during auto-fix.",
    "Cannot read properties of null (reading 'actions')",
    "Cannot read properties of null (reading 'type')",
    event.error }

FailureEntries ==
  {Message("assistant", p \o t, TRUE, FALSE) :
     p \in {"Error: ", "Failed to parse AI response:\n", "Auto-fix failed: "},
     t \in FailureTexts}

\* C19: every failure of a request/apply cycle (a rejected call: missing
\* credential or backend error; a malformed reply; an invalid action format;
\* an exception while folding), on the user-prompt path and on the auto-fix
\* path, is caught in the handler: the transcript ends with an assistant
\* error entry saying what failed, the finally clause has run, and the tree
\* and the tabs are as before.
C19_FailuresBecomeEntries ==
  Failed
    => /\ messages # <<>> /\ LastMessage \in FailureEntries
       /\ ~isLoading
       /\ files = event.treeBefore
       /\ event.name \in Applications
            => openFileIds = event.openBefore /\ activeFileId = event.activeBefore

\* A null element made the loop of handleSendMessage throw after its first
\* action: the TypeError became an entry of the transcript.
C19_Witness ==
  /\ event.name = "SendResolve" /\ ~event.applied /\ ~MalformedReply
  /\ event.batch = <<Chat("hi"), NullElement>>
  /\ LastMessage.content = "Error: Cannot read properties of null (reading 'type')"
  /\ ~isLoading

\* C20: no two nodes of the tree share an id, whatever batches were applied
\* through the user-prompt path and the auto-fix path.
C20_IdsUnique == UniqueIds(files)

(***************************************************************************)
(* Properties of the single actions                                        *)
(***************************************************************************)
\* The tabs and the active file id the k-th action of the latest batch met.
OpenAt(k) == FoldAgain(SubSeq(event.batch, 1, k - 1)).open
ActiveAt(k) == FoldAgain(SubSeq(event.batch, 1, k - 1)).active

\* The delete actions of the latest batch that met a node whose id was a tab.
DeletesOfOpen ==
  {k \in DOMAIN event.batch :
     /\ event.batch[k].type = "delete"
     /\ IsSome(findFileById(TreeAt(k), event.batch[k].fileId))
     /\ Includes(OpenAt(k), event.batch[k].fileId)}

\* `open` and `active` are what a delete of the tab `id` makes of open0, active0.
TabClosed(open0, active0, id, open, active) ==
  /\ open = SelectSeq(open0, LAMBDA x : x # id)
  /\ active = IF active0 # id THEN active0
              ELSE IF open = <<>> THEN NULL ELSE Head(open)

\* One delete action for every tab, in the order of the tabs.
DeleteEveryTab == [i \in DOMAIN openFileIds |-> Delete(openFileIds[i])]

\* The tabs whose id names a node of the tree.
TabsOfNodes == SelectSeq(openFileIds, LAMBDA x : IsSome(findFileById(files, x)))

\* The loop has closed every tab whose node it found (a tab left is of a node
\* that went with its folder before its own delete was reached), and no file
\* is active if the active one was among them and no tab is left.
EveryTabClosed(st) ==
  /\ ~st.threw
  /\ \A i \in DOMAIN st.open : ~IsSome(findFileById(st.files, st.open[i]))
  /\ (Includes(TabsOfNodes, activeFileId) /\ st.open = <<>>) => st.active = NULL

\* C21: a delete action on a node whose id is in the open-tab list removes the
\* id from the list and keeps the other ids in their order; if the node was
\* the active file, the active id becomes the first id left in the list, or
\* none when the list is empty, and otherwise stays.  It holds of every delete
\* of the applied batch, of the tabs the application leaves, and of a batch
\* that deletes every tab.
C21_DeleteClosesTab ==
  /\ (event.name \in Applications /\ event.applied)
       => /\ \A k \in DeletesOfOpen :
               TabClosed(OpenAt(k), ActiveAt(k), event.batch[k].fileId,
                         OpenAt(k + 1), ActiveAt(k + 1))
          /\ openFileIds = OpenAt(Len(event.batch) + 1)
          /\ activeFileId = ActiveAt(Len(event.batch) + 1)
  /\ EveryTabClosed(SendFold(StartOn(files, <<>>, <<>>), DeleteEveryTab))
  /\ EveryTabClosed(FixFold(StartOn(files, <<"Auto-fix applied:">>, <<>>), DeleteEveryTab))

\* The reply to a user prompt deleted index.html, the active file and first
\* tab, and then its folder: the tab is closed, style.css, the first tab
\* left, is active, and the other tabs are in their order.
C21_Witness ==
  /\ event.name = "SendResolve" /\ event.applied
  /\ event.batch = <<Delete("1-1"), Delete("1")>>
  /\ 1 \in DeletesOfOpen /\ ActiveAt(1) = "1-1"
  /\ openFileIds = <<"1-2", "1-3", "2">> /\ activeFileId = "1-2"

\* The edit actions of the latest batch that carried a content and met a file.
EditsOfFile ==
  {k \in DOMAIN event.batch :
     /\ event.batch[k].type = "edit" /\ IsString(event.batch[k].content)
     /\ IsSome(findFileById(TreeAt(k), event.batch[k].fileId))
     /\ The(findFileById(TreeAt(k), event.batch[k].fileId)).type = "file"}

\* The k-th action is the last of the batch to set the tabs or the active id.
NoLaterTabChange(k) ==
  \A j \in (k + 1) .. Len(event.batch) :
    OpenAt(j + 1) = OpenAt(j) /\ ActiveAt(j + 1) = ActiveAt(j)

\* C22: an edit whose fileId resolves to a file replaces the file's content
\* with the action's; after it the id is in the open-tab list and is the
\* active file id, and so it is after the batch unless a later action changes
\* that; on the user-prompt path and on the auto-fix path.
C22_EditOpensAndActivates ==
  (event.name \in Applications /\ event.applied)
    => \A k \in EditsOfFile :
         /\ NodeContent(TreeAt(k + 1), event.batch[k].fileId) = event.batch[k].content
         /\ Includes(OpenAt(k + 1), event.batch[k].fileId)
         /\ ActiveAt(k + 1) = event.batch[k].fileId
         /\ NoLaterTabChange(k)
              => /\ Includes(openFileIds, event.batch[k].fileId)
                 /\ activeFileId = event.batch[k].fileId

\* The same of the user-prompt path alone.
EditOpensAndActivatesOnSend ==
  event.name = "SendResolve" => C22_EditOpensAndActivates

\* The create actions of the latest batch of the given kind.
CreatesOfKind(kind) ==
  {k \in DOMAIN event.batch :
     event.batch[k].type = "create" /\ event.batch[k].fileType = kind}

\* The content a created file is to have: the action's, or "" when it has none.
ContentOrEmpty(action) == IF IsString(action.content) THEN action.content ELSE ""

\* The k-th action, a create given the id `id`, left a file with the action's
\* name and content, opened and active.
CreatedFile(k, id) ==
  /\ findFileById(TreeAt(k + 1), id)
       = Some(FileNode(id, event.batch[k].name, ContentOrEmpty(event.batch[k])))
  /\ Includes(OpenAt(k + 1), id)
  /\ ActiveAt(k + 1) = id

\* The k-th action, a create given the id `id`, left a folder without
\* children, and the tabs and the active id as they were.
CreatedFolder(k, id) ==
  /\ findFileById(TreeAt(k + 1), id) = Some(FolderNode(id, event.batch[k].name, <<>>))
  /\ OpenAt(k + 1) = OpenAt(k)
  /\ ActiveAt(k + 1) = ActiveAt(k)

\* C23: a create of kind file yields a file whose content is the content
\* given, or the empty string when none is given, and its new id is added to
\* the open-tab list and made active; a create of kind folder yields a folder
\* with no children and changes neither the open-tab list nor the active id.
C23_CreateFileOpensFolderDoesNot ==
  (event.name \in Applications /\ event.applied)
    => /\ \A k \in CreatesOfKind("file") : CreatedFile(k, DrawnId(CreatesUpTo(k)))
       /\ \A k \in CreatesOfKind("folder") : CreatedFolder(k, DrawnId(CreatesUpTo(k)))

\* The k-th action is a create whose parentId is null or names a folder, and
\* which was given an id no node has.
SoundCreate(k) ==
  /\ ValidParent(TreeAt(k), event.batch[k].parentId)
  /\ ~IsSome(findFileById(TreeAt(k), DrawnId(CreatesUpTo(k))))

\* The same of the sound creates of the user-prompt path.
SoundCreateOnSend ==
  (event.name = "SendResolve" /\ event.applied)
    => /\ \A k \in CreatesOfKind("file") :
            SoundCreate(k) => CreatedFile(k, DrawnId(CreatesUpTo(k)))
       /\ \A k \in CreatesOfKind("folder") :
            SoundCreate(k) => CreatedFolder(k, DrawnId(CreatesUpTo(k)))

\* On the auto-fix path a sound create of a file leaves the file in the tree
\* and the active file id as it was.
SoundCreateOnFix ==
  (event.name = "FixResolve" /\ event.applied)
    => \A k \in CreatesOfKind("file") :
         SoundCreate(k)
           => /\ IsSome(findFileById(TreeAt(k + 1), DrawnId(CreatesUpTo(k))))
              /\ ActiveAt(k + 1) = ActiveAt(k) /\ OpenAt(k + 1) = OpenAt(k)

\* The summary lines written when the k-th action of the latest batch was
\* reached.
SummariesAt(k) == FoldAgain(SubSeq(event.batch, 1, k - 1)).summaries

ChatsAt == {k \in DOMAIN event.batch : event.batch[k].type = "chat"}

\* The k-th action changed nothing but the summary, which got `line`.
OnlySaid(k, line) ==
  /\ TreeAt(k + 1) = TreeAt(k)
  /\ OpenAt(k + 1) = OpenAt(k)
  /\ ActiveAt(k + 1) = ActiveAt(k)
  /\ SummariesAt(k + 1) = Append(SummariesAt(k), line)

\* C24: a chat action leaves the tree, the open-tab list and the active id
\* unchanged and appends its message to the summary verbatim: the line is the
\* message with nothing added, on the user-prompt path and on the auto-fix
\* path.
C24_ChatVerbatim ==
  (event.name \in Applications /\ event.applied)
    => \A k \in ChatsAt : OnlySaid(k, event.batch[k].message)

\* On the user-prompt path the line is the message; on the auto-fix path it is
\* the message after "- ".
ChatLineByPath ==
  (event.name \in Applications /\ event.applied)
    => \A k \in ChatsAt :
         OnlySaid(k, IF event.name = "SendResolve" THEN event.batch[k].message
                     ELSE "- " \o Str(event.batch[k].message))

(***************************************************************************)
(* Properties of the tree store: calls that change nothing                 *)
(***************************************************************************)
\* id names no node of the tree, or a node of another type than `type`.
NotA(tree, id, type) ==
  ~IsSome(findFileById(tree, id)) \/ The(findFileById(tree, id)).type # type

\* The call of the store that was made is one the claim calls a no-op.
NoOpCall ==
  \/ storeEvent.op = "update" /\ NotA(SourceTree.value, storeEvent.id, "file")
  \/ storeEvent.op = "add" /\ storeEvent.parentId # NULL
       /\ NotA(SourceTree.value, storeEvent.parentId, "folder")
  \/ storeEvent.op = "delete" /\ ~IsSome(findFileById(SourceTree.value, storeEvent.id))

\* C25: update(T, id, c) returns a tree equal to T when id is absent or names
\* a folder; insert(T, p, n) returns a tree equal to T when p is not null and
\* is absent or names a file; remove(T, id) returns a tree equal to T when id
\* is absent.  It holds of the operators on every tree held and of the tree
\* the store built on the heap.
C25_NoOpConditions ==
  /\ \A t \in DOMAIN held :
       /\ \A id \in UpdateIds, c \in UpdateContents :
            NotA(held[t].value, id, "file")
              => updateFileContentPure(held[t].value, id, c) = held[t].value
       /\ \A p \in ParentIds \ {NULL}, n \in NewNodes :
            NotA(held[t].value, p, "folder")
              => addFileOrFolderPure(held[t].value, p, n) = held[t].value
       /\ \A id \in DeleteIds :
            ~IsSome(findFileById(held[t].value, id))
              => deleteFileOrFolderPure(held[t].value, id) = held[t].value
  /\ NoOpCall => ReturnedTree.value = SourceTree.value

\* update was called with the id of the folder "project" on a tree the store
\* had returned, and the tree it returned is a new one of the same value.
C25_Witness ==
  /\ storeEvent.op = "update" /\ storeEvent.id = "1" /\ storeEvent.src > 1
  /\ IsSome(findFileById(SourceTree.value, "1"))
  /\ ReturnedTree.value = SourceTree.value
  /\ ReturnedTree.root # SourceTree.root

(***************************************************************************)
(* Properties of findFileByPath                                            *)
(***************************************************************************)
\* The pieces of the latest path that are not empty, after './' was taken out.
Segments == SelectSeq(WithoutDotSlash(storeEvent.path), LAMBDA x : x # "")

\* The node reached from the level `nodes` by `names`, each naming a child of
\* the folder the name before it reached; None when there is no such node.
RECURSIVE Descend(_, _)
DescendFrom(node, names) ==
  IF ~IsSome(node) THEN None
  ELSE IF names = <<>> THEN node
  ELSE IF The(node).type = "folder" /\ HasChildren(The(node))
  THEN Descend(The(node).children, names)
  ELSE None
Descend(nodes, names) ==
  IF names = <<>> THEN None
  ELSE DescendFrom(FindByName(nodes, Head(names)), Tail(names))

\* C26: findByPath(T, path) returns a node only if every non-empty segment of
\* the path names a child of the node the segment before it matched, going
\* down through folders only, and returns not-found as soon as a segment is
\* absent at its level: a path with a segment after a file, or after a folder
\* that has no such child, is not found.
C26_FindByPathDescends ==
  storeEvent.op = "findFileByPath" => storeEvent.node = Descend(files, Segments)

\* No segment of the latest path follows one that reached a file.
NothingAfterAFile ==
  \A k \in 1 .. (Len(Segments) - 1) :
    IsSome(Descend(files, SubSeq(Segments, 1, k)))
      => The(Descend(files, SubSeq(Segments, 1, k))).type = "folder"

\* For such paths the function returns the node the segments lead to.
FindByPathDescendsThroughFolders ==
  (storeEvent.op = "findFileByPath" /\ NothingAfterAFile)
    => storeEvent.node = Descend(files, Segments)

(***************************************************************************)
(* Properties of the in-flight flag                                        *)
(***************************************************************************)
\* C27: every model call that resolves or rejects, on the user-prompt path
\* and on the auto-fix path and on every branch after the await, leaves
\* isLoading false, so that a prompt or a preview error can be accepted
\* again; isLoading is true only while a call is pending, and since pending
\* calls settle, isLoading true leads to isLoading false.
C27_LoadingCleared ==
  /\ [](isLoading => calls # <<>>)
  /\ [](event.name \in Completions => ~isLoading)
  /\ (isLoading ~> ~isLoading)

\* An auto-fix call was answered with a batch whose null element made the
\* loop throw: the failure is in the transcript and isLoading is false.
C27_Witness ==
  /\ event.name = "FixResolve" /\ ~event.applied
  /\ event.batch = <<Chat("hi"), NullElement>>
  /\ ~isLoading /\ calls = <<>>

(***************************************************************************)
(* Properties of a failed call of a user prompt                            *)
(***************************************************************************)
\* The entry the catch clause of handleSendMessage writes for a rejection.
RejectionEntry == Message("assistant", "Error: " \o event.error, TRUE, FALSE)

\* The rejection left the tree, the tabs and the active id alone and started
\* no call.
RejectionKeepsTree ==
  event.name = "SendReject"
    => /\ files = event.treeBefore
       /\ openFileIds = event.openBefore /\ activeFileId = event.activeBefore
       /\ Len(calls) = event.pendingBefore - 1

\* The transcript after the rejection ends with the error entry, and no
\* context is armed.
RejectionSurfaced ==
  event.name = "SendReject"
    => /\ messages # <<>> /\ LastMessage = RejectionEntry
       /\ ContextEmpty

\* The transcript after the rejection is the one before it with the error
\* entry appended.
RejectionAppended ==
  event.name = "SendReject" => messages = Append(event.messagesBefore, RejectionEntry)

\* The step that follows the rejection of a prompt's call starts no call
\* unless it is the submission of a new prompt.
NoCallAfterRejection ==
  [][(event.name = "SendReject" /\ promptsIssued' = promptsIssued)
       => nCalls' = nCalls]_vars

\* C28: when the model call of a user prompt is rejected (missing credential,
\* transport or backend error), the transcript is the one before with exactly
\* one assistant error entry appended, the tree, the open tabs and the active
\* id are unchanged, the correction context is empty, and no model call is
\* issued until a new prompt is submitted.
C28_RejectedPromptCall ==
  /\ [](RejectionAppended /\ RejectionKeepsTree /\ RejectionSurfaced)
  /\ NoCallAfterRejection

(***************************************************************************)
(* Properties of the tree an auto-fix is applied to                        *)
(***************************************************************************)
\* The loop of handleAutoFix run on the latest batch from `tree`, with the
\* tabs and the ids the application had.
FixFoldOver(tree) ==
  FixFold(FoldState(tree, event.baseOpen, event.baseActive,
                    <<"Auto-fix applied:">>, 0, event.gen), event.batch)

\* The latest step applied an auto-fix batch.
AutoFixApplied == event.name = "FixResolve" /\ event.applied

\* C29: after a successful auto-fix the tree is the auto-fix batch folded over
\* the tree the correction context held when the reply was applied, whatever
\* the tree was at that time.
C29_AutoFixOverSavedTree ==
  AutoFixApplied
    => /\ IsSome(event.saved)
       /\ files = FixFoldOver(The(event.saved)).files

\* After a successful auto-fix the tree is the auto-fix batch folded over the
\* tree saved in the context that the handler which started the call held.
AutoFixOverHandlersTree ==
  AutoFixApplied => files = FixFoldOver(event.base).files

\* An auto-fix that changed nothing was applied where the tree had a manual
\* edit: the edit is gone, the tree is the one the handler's context held.
ManualEditUndone ==
  /\ AutoFixApplied /\ event.batch = <<>>
  /\ \E id \in {"1-1", "1-2"} :
       /\ IsSome(findFileById(event.treeBefore, id))
       /\ The(findFileById(event.treeBefore, id)).content = "manual"
       /\ IsSome(findFileById(files, id))
       /\ The(findFileById(files, id)).content # "manual"
  /\ files = event.base

(***************************************************************************)
(* Properties of the context an auto-fix arms                              *)
(***************************************************************************)
\* The latest step applied an auto-fix batch that modified the tree, and the
\* context passes the tests of handlePreviewError again.
ArmedAgain == AutoFixApplied /\ event.didModify /\ Armed

\* C30: when an auto-fix batch that modifies the tree has been applied and the
\* context is armed again, the prompt stored in the context is the text of the
\* user prompt the auto-fix was started for.
C30_RearmedWithUserPrompt ==
  ArmedAgain => lastUserPrompt = event.basePrompt

\* What the auto-fix stores beside the prompt: the whole parsed reply and the
\* tree of the render that started the call.
RearmedWithReplyAndTree ==
  ArmedAgain
    => /\ lastAiActions = Some(event.parsed)
       /\ lastFileState = Some(event.closureFiles)

(***************************************************************************)
(* Properties of the tree a context saves                                  *)
(***************************************************************************)
\* The latest step applied a batch that modified the tree, and the context
\* passes the tests of handlePreviewError.
ArmedByStep == event.name \in Applications /\ event.applied /\ event.didModify /\ Armed

\* The loop of the latest application run on its batch from the tree the
\* context now holds.
RefoldOverSaved ==
  IF event.name = "SendResolve"
  THEN SendFold(FoldState(The(lastFileState), event.baseOpen, event.baseActive, <<>>, 0,
                          event.gen), event.batch)
  ELSE FixFoldOver(The(lastFileState))

\* C31: whenever a batch has armed the context, on the user-prompt path and on
\* the auto-fix path, the tree the context saves is the tree the fold of the
\* batch started from, and folding the batch over the saved tree again gives
\* the tree that was installed.
C31_SavedTreeIsFoldBase ==
  ArmedByStep
    => /\ lastFileState = Some(event.base)
       /\ files = RefoldOverSaved.files

\* The same for the user-prompt path alone.
SavedTreeIsFoldBaseOnSend ==
  (ArmedByStep /\ event.name = "SendResolve") => C31_SavedTreeIsFoldBase

\* The auto-fix path saves the tree of the render that started the call.
SavedTreeOnFix ==
  (ArmedByStep /\ event.name = "FixResolve") => lastFileState = Some(event.closureFiles)

(***************************************************************************)
(* Properties of the tabs                                                  *)
(***************************************************************************)
\* C32: in every reachable state, after any tab selections, tab closes and
\* applied batches of both paths, the active file id is none or one of the
\* open tabs.
C32_ActiveIsOpenOrNone ==
  activeFileId = NULL \/ Includes(openFileIds, activeFileId)

\* A file was selected while an auto-fix call was pending, and the reply
\* deleted a file with a tab and then its folder: the tabs are those of the
\* render that started the call without the deleted file, the selection made
\* meanwhile is gone, and the active id is one of the tabs.
C32_Witness ==
  /\ event.name = "FixResolve" /\ event.applied
  /\ event.batch = <<Delete("1-1"), Delete("1")>>
  /\ event.activeBefore # event.baseActive
  /\ Includes(event.baseOpen, "1-1")
  /\ openFileIds = Filter(event.baseOpen, "1-1")
  /\ activeFileId # NULL /\ Includes(openFileIds, activeFileId)

\* `id` is the id of a file of `tree`.
IsFileOf(tree, id) ==
  IsSome(findFileById(tree, id)) /\ The(findFileById(tree, id)).type = "file"

\* C33: in every reachable state, after any applied batches, every id of the
\* open-tab list and the active file id, when there is one, is the id of a
\* file that exists in the current tree.
C33_TabsResolveToFiles ==
  /\ \A i \in DOMAIN openFileIds : IsFileOf(files, openFileIds[i])
  /\ activeFileId # NULL => IsFileOf(files, activeFileId)

\* The tabs resolve as long as no batch was applied.
TabsResolveBetweenBatches ==
  [][(C33_TabsResolveToFiles /\ event'.name \notin Applications)
       => C33_TabsResolveToFiles']_vars

(***************************************************************************)
(* Properties of manual edits made while a call is pending                 *)
(***************************************************************************)
\* Node `a` of the tree is the file `f` or a folder above it.
IsOrHolds(tree, a, f) ==
  \/ a = f
  \/ /\ IsSome(findFileById(tree, a))
     /\ The(findFileById(tree, a)).type = "folder"
     /\ HasChildren(The(findFileById(tree, a)))
     /\ IsSome(findFileById(The(findFileById(tree, a)).children, f))

\* The batch has an edit or a delete that addresses `f` or a folder above it.
AddressesFile(batch, tree, f) ==
  \E k \in DOMAIN batch :
    /\ batch[k].type \in {"edit", "delete"}
    /\ IsOrHolds(tree, batch[k].fileId, f)

\* File `f` of the tree has the text the user typed.
HasManualEdit(tree, f) ==
  IsFileOf(tree, f) /\ The(findFileById(tree, f)).content \in ManualContents

\* The user typed into `f` after the call of the latest application was
\* issued and before its reply was applied.
EditedInFlight(f) ==
  /\ event.name \in Applications /\ event.applied
  /\ HasManualEdit(event.treeBefore, f)
  /\ ~HasManualEdit(event.closureFiles, f)

\* C34: a manual edit of file f made while a model request was in flight is
\* still in the tree after the reply's batch has been applied, when the batch
\* has no edit or delete addressing f or a folder above f.
C34_NoLostUpdate ==
  \A f \in FileIds :
    (EditedInFlight(f) /\ ~AddressesFile(event.batch, event.treeBefore, f))
      => HasManualEdit(files, f)

\* What was typed while the call of a prompt was pending is not in the tree
\* the reply leaves: the loop starts from the tree of the render that issued
\* the call.
InFlightEditLostOnSend ==
  \A f \in FileIds :
    (EditedInFlight(f) /\ event.name = "SendResolve") => ~HasManualEdit(files, f)

(***************************************************************************)
(* Properties of the answer to a prompt                                    *)
(***************************************************************************)
\* The latest step was the completion of the call of a user prompt.
PromptCallCompleted == event.name \in {"SendResolve", "SendReject"}

\* The transcript ends with an entry of the assistant.
AssistantSpokeLast == messages # <<>> /\ LastMessage.role = "assistant"

\* The batch was applied, modified the tree as far as didModifyFiles tells,
\* and wrote no summary line.
SilentBatch ==
  /\ event.name = "SendResolve" /\ event.applied
  /\ event.didModify /\ event.summaries = <<>>

\* C35: every user prompt whose model call has completed, resolved with any
\* reply or rejected, is eventually followed by an assistant entry in the
\* transcript.
C35_PromptIsAnswered == PromptCallCompleted ~> AssistantSpokeLast

\* Every completion but that of a silent batch leaves an assistant entry at
\* the end of the transcript at once.
AnsweredUnlessSilent ==
  (PromptCallCompleted /\ ~SilentBatch) => AssistantSpokeLast

\* A silent batch leaves the transcript as it was.
SilentBatchSaysNothing == SilentBatch => messages = event.messagesBefore

(***************************************************************************)
(* Properties of the commit of a batch                                     *)
(***************************************************************************)
\* The tree, the tabs and the active id are those the loop of the latest
\* application ends with when it is run on the whole batch.
WholeBatch ==
  /\ files = FoldAgain(event.batch).files
  /\ openFileIds = FoldAgain(event.batch).open
  /\ activeFileId = FoldAgain(event.batch).active

\* The tree, the tabs and the active id are as before the latest step.
NoneOfBatch ==
  /\ files = event.treeBefore
  /\ openFileIds = event.openBefore
  /\ activeFileId = event.activeBefore

\* Processing an action of the latest batch raised an exception.
BatchThrew == event.name \in Applications /\ ~event.applied /\ ~MalformedReply

\* C36: after a reply has been handled the tree, the tabs and the active id
\* are either as before or the complete left-to-right fold of the batch; when
\* an action of the batch raised an exception the three are as before and no
\* correction context is armed.
C36_AllOrNothing ==
  /\ event.name \in Applications => (IF event.applied THEN WholeBatch ELSE NoneOfBatch)
  /\ BatchThrew => NoneOfBatch /\ ~Armed

(***************************************************************************)
(* Properties of the two loops together                                    *)
(***************************************************************************)
\* The loop of handleSendMessage run on the latest batch from `tree`, with
\* the tabs and the ids the application had.
SendFoldOver(tree) ==
  SendFold(FoldState(tree, event.baseOpen, event.baseActive, <<>>, 0, event.gen),
           event.batch)

SameTree(s, f) == s.files = f.files
SameTabs(s, f) == s.open = f.open /\ s.active = f.active

\* C37: for the tree, the tabs, the active id and the batch of every
\* application, with the same ids given to the creates, the loop of the
\* auto-fix path and the loop of the user-prompt path end with the same tree,
\* the same open tabs and the same active id.
C37_InterpretersAgree ==
  (event.name \in Applications /\ event.applied)
    => /\ SameTree(SendFoldOver(event.base), FixFoldOver(event.base))
       /\ SameTabs(SendFoldOver(event.base), FixFoldOver(event.base))

\* The two loops end with the same tree, and neither throws without the other.
InterpretersAgreeOnTree ==
  event.name \in Applications /\ ~MalformedReply
    => /\ SameTree(SendFoldOver(event.base), FixFoldOver(event.base))
       /\ SendFoldOver(event.base).threw = FixFoldOver(event.base).threw
       /\ SendFoldOver(event.base).didModify = FixFoldOver(event.base).didModify

\* They end with the same tabs when the batch has no edit and no create.
InterpretersAgreeWithoutEditCreate ==
  (event.name \in Applications /\ event.applied
     /\ \A k \in DOMAIN event.batch : event.batch[k].type \notin {"edit", "create"})
    => SameTabs(SendFoldOver(event.base), FixFoldOver(event.base))

====
